---- MODULE Spec2Model ----
(***************************************************************************)
(* A model of file_indexer.indexer.FileIndexer: the incremental indexing   *)
(* pipeline (update_database, index_files_without_checksums,               *)
(* calculate_checksums_for_duplicates) and the reconciliation sweep        *)
(* (cleanup_deleted_files) over the `files` table.                         *)
(***************************************************************************)
EXTENDS Integers, Sequences, FiniteSets, TLC

(***************************************************************************)
(* Bounds of the model.                                                    *)
(***************************************************************************)
\* operations started per behaviour
MaxRuns == 2
\* file modifications per behaviour
MaxMods == 1
\* store faults (rejected statements, failed lookups) injected per behaviour
MaxFaults == 1
\* largest batch_size argument tried
MaxBatch == 2
\* sub-second ticks of a timestamp (microseconds in the program)
TicksPerSec == 2

\* the walked tree, in the order os.walk yields it
WalkOrder == <<"a", "b", "c">>
Files == {WalkOrder[i] : i \in 1..Len(WalkOrder)}

\* file contents; content 0 is the empty file
Contents == 0..3
\* configured max_checksum_size values tried (0 = no limit)
MaxChecksumSizes == {0, 1}

\* st_size of a file holding content c: 0, 1, 1, 2
Size(c) == (c + 1) \div 2

\* SQL NULL / Python None in the checksum column
Null == "NULL"
\* the empty string the worker returns when it cannot hash
EmptyString == ""
\* hashlib hexdigest of content c (distinct contents, distinct digests)
Hexdigest(c) == <<"e3b0c442", "6b86b273", "d4735e3a", "4e074085">>[c + 1]

VARIABLES
    fs,          \* filesystem: file -> [content, mtime, readable, kind]
    clock,       \* wall clock (CURRENT_TIMESTAMP, source of st_mtime)
    catalog,     \* the files table: function from present keys to rows
    cfg,         \* [max_checksum_size, configured, skip_empty_files]
    pc,          \* position of the running operation
    op,          \* the operation in progress
    batch_size,  \* batch_size argument of the running operation
    todo,        \* walked / selected paths not yet batched
    fb,          \* paths left in _process_batch_individually
    sizes,       \* duplicate_sizes rows left in Phase 2
    stats,       \* the instance counters
    outcome,     \* how the last operation returned to its caller
    faults,      \* store faults injected so far
    runs,        \* operations started so far
    nmods,       \* file modifications so far
    hist,        \* observations: what happened since the runs started
    disk,        \* what existence checks answer: [dir, file]
    rows,        \* the (path, filename) keys of the files table, as the
                 \* reconciliation sweep sees it
    sweep,       \* position and arguments of cleanup_deleted_files
    totals,      \* its total_* accumulators
    probes,      \* observations: existence checks made, pages each key was on
    result,      \* the dictionary the last sweep returned
    dirpass,     \* position, arguments and totals of cleanup_empty_directories
    pool,        \* one call of _calculate_checksums_parallel in progress
    walk         \* one call of scan_directory_generator and the tree it walks

indexVars == <<fs, clock, catalog, cfg, pc, op, batch_size, todo, fb, sizes,
               stats, outcome, faults, runs, nmods, hist>>

cleanupVars == <<disk, rows, sweep, totals, probes, result, dirpass>>

hashVars == <<pool>>

scanVars == <<walk>>

vars == <<indexVars, cleanupVars, hashVars, scanVars>>

(***************************************************************************)
(* Timestamps.  st_mtime is a count of ticks; datetime.fromtimestamp       *)
(* splits it into seconds and sub-second ticks; isoformat() omits the      *)
(* fraction when it is zero; the store parses the text back.               *)
(***************************************************************************)
FromTimestamp(t) == [sec |-> t \div TicksPerSec, usec |-> t % TicksPerSec]

Isoformat(dt) == IF dt.usec = 0 THEN <<dt.sec>> ELSE <<dt.sec, dt.usec>>

\* a parser that drops the fractional seconds
ParseTimestampSeconds(s) == [sec |-> s[1], usec |-> 0]

ParseTimestamp(s) == [sec |-> s[1], usec |-> IF Len(s) = 1 THEN 0 ELSE s[2]]

(***************************************************************************)
(* Sequence helpers.                                                       *)
(***************************************************************************)
Range(s) == {s[i] : i \in 1..Len(s)}

Min(a, b) == IF a < b THEN a ELSE b

Take(s, n) == SubSeq(s, 1, Min(n, Len(s)))

Drop(s, n) == SubSeq(s, Min(n, Len(s)) + 1, Len(s))

RECURSIVE MapSeq(_, _)
MapSeq(F(_), s) == IF s = <<>> THEN <<>> ELSE <<F(Head(s))>> \o MapSeq(F, Tail(s))

(***************************************************************************)
(* Pure parts of the pipeline.                                             *)
(***************************************************************************)
\* a policy that does not know the negative "skip all" value
ShouldCalculateWithoutSentinel(c, file_size) ==
    IF c.skip_empty_files /\ file_size = 0 THEN FALSE
    ELSE ~(c.max_checksum_size > 0 /\ file_size > c.max_checksum_size)

\* a policy that hashes empty files whatever skip_empty_files says
ShouldCalculateEvenEmpty(c, file_size) ==
    IF c.max_checksum_size < 0 THEN FALSE
    ELSE ~(c.max_checksum_size > 0 /\ file_size > c.max_checksum_size)

\* a policy that also refuses a file of exactly max_checksum_size bytes
ShouldCalculateBelowLimit(c, file_size) ==
    IF c.max_checksum_size < 0 THEN FALSE
    ELSE IF c.skip_empty_files /\ file_size = 0 THEN FALSE
    ELSE ~(c.max_checksum_size > 0 /\ file_size >= c.max_checksum_size)

\* _should_calculate_checksum
ShouldCalculateChecksum(c, file_size) ==
    IF c.max_checksum_size < 0 THEN FALSE
    ELSE IF c.skip_empty_files /\ file_size = 0 THEN FALSE
    ELSE ~(c.max_checksum_size > 0 /\ file_size > c.max_checksum_size)

\* Path.stat(): the live (mtime, size) of a path
Stat(f) == [mtime |-> FromTimestamp(fs[f].mtime), size |-> Size(fs[f].content)]

\* a worker that opens whatever the path names
ChecksumWorkerUnchecked(f) ==
    IF fs[f].readable THEN Hexdigest(fs[f].content) ELSE EmptyString

\* _calculate_checksum_worker: the digest, or "" when the path is a symbolic
\* link or not a regular file, or when the file cannot be read
ChecksumWorker(f) ==
    IF fs[f].kind # "regular" THEN EmptyString
    ELSE IF fs[f].readable THEN Hexdigest(fs[f].content)
    ELSE EmptyString

\* a collector that keeps whatever the worker returned
CalculateChecksumsKeepingAll(paths) ==
    [f \in Range(paths) |-> ChecksumWorker(f)]

\* _calculate_checksums_parallel / _sequential: path -> digest for the
\* paths whose worker returned a non-empty checksum
CalculateChecksums(paths) ==
    [f \in {p \in Range(paths) : ChecksumWorker(p) # EmptyString} |->
        ChecksumWorker(f)]

\* _get_existing_files_bulk: the rows of the batch's keys
GetExistingFilesBulk(paths) ==
    [f \in Range(paths) \cap DOMAIN catalog |-> catalog[f]]

\* a classifier that compares the size only
ClassifyBySize(f, existing) ==
    IF f \notin DOMAIN existing THEN "NEW"
    ELSE IF Stat(f).size = existing[f].size THEN "UNCHANGED" ELSE "MODIFIED"

\* a classifier that never finds a known file unchanged
ClassifyAlwaysModified(f, existing) ==
    IF f \notin DOMAIN existing THEN "NEW" ELSE "MODIFIED"

\* _process_files_batch, per file: NEW, UNCHANGED or MODIFIED
Classify(f, existing) ==
    IF f \notin DOMAIN existing THEN "NEW"
    ELSE IF Stat(f).mtime = existing[f].mtime /\ Stat(f).size = existing[f].size
         THEN "UNCHANGED"
         ELSE "MODIFIED"

IsNew(f) == Classify(f, GetExistingFilesBulk(<<f>>)) = "NEW"
IsModified(f) == Classify(f, GetExistingFilesBulk(<<f>>)) = "MODIFIED"
IsUnchanged(f) == Classify(f, GetExistingFilesBulk(<<f>>)) = "UNCHANGED"

\* files_needing_checksums of _process_files_batch
FilesNeedingChecksums(paths) ==
    SelectSeq(paths, LAMBDA f : ~IsUnchanged(f)
                                /\ ShouldCalculateChecksum(cfg, Stat(f).size))

\* one insert_data / update_data tuple of _process_batch
DataRow(f, checksums) ==
    [key |-> f,
     checksum |-> IF ShouldCalculateChecksum(cfg, Stat(f).size)
                  THEN checksums[f] ELSE Null,
     mtime |-> Isoformat(Stat(f).mtime),
     size |-> Stat(f).size]

\* a file whose checksum was needed and could not be calculated is skipped
HashFailed(f, checksums) ==
    ShouldCalculateChecksum(cfg, Stat(f).size) /\ f \notin DOMAIN checksums

\* insert_data of _process_batch
InsertData(paths, checksums) ==
    LET keep == SelectSeq(paths, LAMBDA f : IsNew(f) /\ ~HashFailed(f, checksums))
        Row(f) == DataRow(f, checksums)
    IN  MapSeq(Row, keep)

\* update_data of _process_batch
UpdateData(paths, checksums) ==
    LET keep == SelectSeq(paths,
                          LAMBDA f : IsModified(f) /\ ~HashFailed(f, checksums))
        Row(f) == DataRow(f, checksums)
    IN  MapSeq(Row, keep)

(***************************************************************************)
(* The store.  A statement list runs inside BEGIN ... COMMIT; statement    *)
(* number failAt (0 = none) is rejected by the store.                      *)
(***************************************************************************)
\* INSERT INTO files (...) VALUES (...): indexed_at defaults to now
InsertRow(cat, r, now) ==
    cat @@ (r.key :> [checksum |-> r.checksum, mtime |-> ParseTimestamp(r.mtime),
                      size |-> r.size, indexed_at |-> now])

\* UPDATE files SET checksum, modification_datetime, file_size, indexed_at
UpdateRow(cat, r, now) ==
    IF r.key \in DOMAIN cat
    THEN [cat EXCEPT ![r.key] = [checksum |-> r.checksum,
                                 mtime |-> ParseTimestamp(r.mtime),
                                 size |-> r.size, indexed_at |-> now]]
    ELSE cat

\* the primary key (path, filename) rejects a second INSERT of a key
Rejected(cat, st, i, failAt) ==
    \/ i = failAt
    \/ st.kind = "insert" /\ st.row.key \in DOMAIN cat

\* the statements of one executemany pair, in execution order
Statements(inserts, updates) ==
    LET Ins(r) == [kind |-> "insert", row |-> r]
        Upd(r) == [kind |-> "update", row |-> r]
    IN  MapSeq(Ins, inserts) \o MapSeq(Upd, updates)

\* the table after statements i.. of the transaction, and whether one failed
RECURSIVE Execute(_, _, _, _, _)
Execute(cat, stmts, i, failAt, now) ==
    IF i > Len(stmts) THEN [cat |-> cat, failed |-> FALSE]
    ELSE IF Rejected(cat, stmts[i], i, failAt) THEN [cat |-> cat, failed |-> TRUE]
    ELSE Execute(IF stmts[i].kind = "insert"
                 THEN InsertRow(cat, stmts[i].row, now)
                 ELSE UpdateRow(cat, stmts[i].row, now),
                 stmts, i + 1, failAt, now)

\* bulk operations that re-raise without ROLLBACK
BulkWithoutRollback(cat, inserts, updates, failAt, now) ==
    LET run == Execute(cat, Statements(inserts, updates), 1, failAt, now)
    IN  [cat |-> run.cat, raised |-> run.failed]

\* _bulk_database_operations: COMMIT, or ROLLBACK and re-raise
BulkDatabaseOperations(cat, inserts, updates, failAt, now) ==
    LET run == Execute(cat, Statements(inserts, updates), 1, failAt, now)
    IN  IF run.failed
        THEN [cat |-> cat, raised |-> TRUE]
        ELSE [cat |-> run.cat, raised |-> FALSE]


\* _should_process_file: a symbolic link or a path that is not a regular
\* file is refused; with check_empty_files an empty file is refused under
\* skip_empty_files
ShouldProcessFile(f, check_empty_files) ==
    /\ fs[f].kind = "regular"
    /\ ~(check_empty_files /\ cfg.skip_empty_files /\ Stat(f).size = 0)

\* scan_directory_generator over the tree of the indexing runs: its files
\* that are regular files when the walk passes
ScanDirectory == SelectSeq(WalkOrder, LAMBDA f : ShouldProcessFile(f, FALSE))

\* _get_file_info: None, or the record to store for the path
GetFileInfo(f) ==
    LET st == Stat(f)
        known == f \in DOMAIN catalog
    IN  IF ~ShouldProcessFile(f, FALSE)
        THEN [ok |-> FALSE, checksum |-> Null, reuse |-> 0, calc |-> 0, skip |-> 0]
        ELSE IF known /\ st.mtime = catalog[f].mtime
        THEN [ok |-> TRUE, checksum |-> catalog[f].checksum,
              reuse |-> IF catalog[f].checksum # Null THEN 1 ELSE 0,
              calc |-> 0, skip |-> 0]
        ELSE IF ShouldCalculateChecksum(cfg, st.size)
        THEN IF ChecksumWorker(f) = EmptyString
             THEN [ok |-> FALSE, checksum |-> Null, reuse |-> 0, calc |-> 0,
                   skip |-> 0]
             ELSE [ok |-> TRUE, checksum |-> ChecksumWorker(f), reuse |-> 0,
                   calc |-> 1, skip |-> 0]
        ELSE [ok |-> TRUE, checksum |-> Null, reuse |-> 0, calc |-> 0, skip |-> 1]

\* a size query that takes every size with a record without a checksum
DuplicateSizesAnyNull(cat, skip_empty) ==
    {s \in {cat[f].size : f \in DOMAIN cat} :
        /\ skip_empty => s > 0
        /\ \E f \in DOMAIN cat : cat[f].size = s /\ cat[f].checksum = Null}

\* a size query that wants more than one record without a checksum
DuplicateSizesManyNull(cat, skip_empty) ==
    {s \in {cat[f].size : f \in DOMAIN cat} :
        /\ skip_empty => s > 0
        /\ Cardinality({f \in DOMAIN cat :
                           cat[f].size = s /\ cat[f].checksum = Null}) > 1}

\* the duplicate_sizes query: GROUP BY file_size HAVING COUNT(*) > 1 AND
\* SUM(CASE WHEN checksum IS NULL THEN 1 ELSE 0 END) > 0
DuplicateSizesOf(cat, skip_empty) ==
    {s \in {cat[f].size : f \in DOMAIN cat} :
        /\ skip_empty => s > 0
        /\ Cardinality({f \in DOMAIN cat : cat[f].size = s}) > 1
        /\ \E f \in DOMAIN cat : cat[f].size = s /\ cat[f].checksum = Null}

\* the duplicate_sizes query of calculate_checksums_for_duplicates
DuplicateSizes == DuplicateSizesOf(catalog, cfg.skip_empty_files)

\* ORDER BY file_size
RECURSIVE SortedSizes(_)
SortedSizes(S) ==
    IF S = {} THEN <<>>
    ELSE LET m == CHOOSE x \in S : \A y \in S : x <= y
         IN  <<m>> \o SortedSizes(S \ {m})

\* a files_query without "AND checksum IS NULL"
FilesWithSizeAll(s) ==
    SelectSeq(WalkOrder, LAMBDA f : f \in DOMAIN catalog /\ catalog[f].size = s)

\* the files_query of one size: its un-hashed rows, ORDER BY path, filename
FilesWithSize(s) ==
    SelectSeq(WalkOrder, LAMBDA f : /\ f \in DOMAIN catalog
                                    /\ catalog[f].size = s
                                    /\ catalog[f].checksum = Null)

\* a commit that upserts the whole record from the live file
SetChecksumAndMetadata(cat, f, checksum, now) ==
    [g \in DOMAIN cat \cup {f} |->
        IF g = f
        THEN [checksum |-> checksum, mtime |-> Stat(f).mtime,
              size |-> Stat(f).size, indexed_at |-> now]
        ELSE cat[g]]

\* a commit that stores nothing
SetChecksumNowhere(cat, f, checksum, now) == cat

\* UPDATE files SET checksum = ?, indexed_at = CURRENT_TIMESTAMP
SetChecksum(cat, f, checksum, now) ==
    IF f \in DOMAIN cat
    THEN [cat EXCEPT ![f].checksum = checksum, ![f].indexed_at = now]
    ELSE cat

RECURSIVE SetChecksums(_, _, _, _, _, _)
SetChecksums(cat, paths, checksums, i, failAt, now) ==
    IF i > Len(paths) THEN [cat |-> cat, failed |-> FALSE]
    ELSE IF i = failAt THEN [cat |-> cat, failed |-> TRUE]
    ELSE SetChecksums(SetChecksum(cat, paths[i], checksums[paths[i]], now),
                      paths, checksums, i + 1, failAt, now)

\* the transaction of _calculate_checksums_for_files: COMMIT, or ROLLBACK
\* and report nothing updated
CommitChecksums(cat, paths, checksums, failAt, now) ==
    LET run == SetChecksums(cat, paths, checksums, 1, failAt, now)
    IN  IF run.failed
        THEN [cat |-> cat, failed |-> TRUE]
        ELSE [cat |-> run.cat, failed |-> FALSE]


(***************************************************************************)
(* Observations kept beside the program state.                             *)
(***************************************************************************)
\* the (checksum, mtime, size) columns of a table
Columns(cat) ==
    [f \in DOMAIN cat |-> [checksum |-> cat[f].checksum, mtime |-> cat[f].mtime,
                           size |-> cat[f].size]]

\* what one update_database pass without interruption leaves in the table
Uninterrupted ==
    LET cs == CalculateChecksums(FilesNeedingChecksums(WalkOrder))
    IN  Columns(BulkDatabaseOperations(catalog, InsertData(WalkOrder, cs),
                                       UpdateData(WalkOrder, cs), 0, clock).cat)

NoBulk == [rows |-> <<>>, raised |-> FALSE, failAt |-> 0, left |-> 0]

HistInit ==
    [written |-> [f \in Files |-> {<<0, 1>>}],
     cat0 |-> <<>>, calc0 |-> 0, reuse0 |-> 0,
     mods |-> {}, prot |-> {}, rejected |-> FALSE,
     prevOk |-> FALSE, between |-> {}, betweenProt |-> {},
     resumed |-> FALSE, expect |-> <<>>, done |-> {}, done0 |-> {},
     hashed |-> {}, bulk |-> NoBulk, queried |-> <<>>, prevPhase2 |-> FALSE,
     prevHashed |-> {}]

(***************************************************************************)
(* The catalogued tree of the reconciliation sweep: directory /d with two  *)
(* files, its subdirectory /d/s and a sibling /e with one file each.  A    *)
(* path is the sequence of its components.                                 *)
(***************************************************************************)
\* the directories, in the order ORDER BY path sorts them
DirOrder == << <<"d">>, <<"d", "s">>, <<"e">> >>
Dirs == {DirOrder[i] : i \in 1..Len(DirOrder)}

\* the filenames, in the order ORDER BY filename sorts them
NameOrder == <<"x", "y">>

Key(p, n) == [path |-> p, filename |-> n]

AllKeys == {Key(<<"d">>, "x"), Key(<<"d">>, "y"), Key(<<"d", "s">>, "x"),
            Key(<<"e">>, "x")}

\* largest page_size argument tried
MaxPage == 3

\* position of x in the sequence s
RECURSIVE IndexOf(_, _)
IndexOf(s, x) == IF Head(s) = x THEN 1 ELSE 1 + IndexOf(Tail(s), x)

\* q is p or an ancestor of p: Path(p).relative_to(Path(q)) does not raise
IsRelativeTo(p, q) == Len(q) <= Len(p) /\ SubSeq(p, 1, Len(q)) = q

SweepIdle == [pc |-> "idle", page_num |-> 1, last_path |-> <<>>,
              last_filename |-> "", page_size |-> 1, dry_run |-> FALSE,
              deleted_files |-> 0]

NoTotals == [deleted_files |-> <<>>, deleted_directories |-> {},
             permission_errors |-> 0, checked_files |-> 0,
             checked_directories |-> 0, by_directory |-> 0,
             individually |-> 0]

NoProbes == [dir |-> [d \in Dirs |-> 0], file |-> [k \in AllKeys |-> 0],
             seen |-> [k \in AllKeys |-> 0], rows0 |-> {}]

NoResult == [total_checked |-> -1, deleted_files |-> -1,
             deleted_directories |-> -1, permission_errors |-> -1]

NoDirResult == [total_checked |-> -1, deleted_directories |-> -1,
                permission_errors |-> -1]

\* cleanup_empty_directories not running; rows0 observes the table it found
DirPassIdle == [pc |-> "idle", page_num |-> 1, last_path |-> <<>>,
                page_size |-> 1, dry_run |-> FALSE,
                deleted_directories |-> <<>>, permission_errors |-> 0,
                checked_directories |-> 0, rows0 |-> {},
                result |-> NoDirResult]

\* no hashing call in progress
PoolIdle == [state |-> "idle", how |-> "none", file_paths |-> <<>>,
             pending |-> {}, items |-> <<>>, calculations |-> 0]

HashAtRest == pool = PoolIdle

\* no walk in progress, beside a root directory with nothing in it
WalkIdle == [state |-> "idle", recursive |-> TRUE,
             tree |-> [root |-> "dir", p |-> "absent", s |-> "absent",
                       r |-> "absent"],
             pending |-> <<>>, yielded |-> <<>>,
             ignored_symlinks |-> 0, ignored_special_files |-> 0]

WalkAtRest == walk = WalkIdle

\* a sweep that has not started, beside an intact tree
CleanupAtRest ==
    /\ disk = [dir |-> [d \in Dirs |-> "present"],
               file |-> [k \in AllKeys |-> "present"]]
    /\ rows = AllKeys
    /\ sweep = SweepIdle
    /\ totals = NoTotals
    /\ probes = NoProbes
    /\ result = NoResult
    /\ dirpass = DirPassIdle

(***************************************************************************)
(* Initial state: FileIndexer.__init__ on a new database, beside a tree    *)
(* of three files with equal content.                                      *)
(***************************************************************************)
\* the counters as __init__ and reset_optimization_counters leave them
NoStats == [checksum_calculations |-> 0, checksum_reuses |-> 0,
            skipped_files |-> 0, skipped_checksums |-> 0,
            permission_errors |-> 0]

\* a new indexer beside a tree whose files were all written at time 0:
\* tree[f] is the content of f, locked the files that cannot be read
IndexInitOn(tree, locked, m, e) ==
    /\ fs = [f \in Files |-> [content |-> tree[f], mtime |-> 0,
                               readable |-> f \notin locked,
                               kind |-> "regular"]]
    /\ clock = 0
    /\ catalog = <<>>
    /\ cfg = [max_checksum_size |-> m, configured |-> m, skip_empty_files |-> e]
    /\ pc = "idle"
    /\ op = "none"
    /\ batch_size = 1
    /\ todo = <<>>
    /\ fb = <<>>
    /\ sizes = <<>>
    /\ stats = NoStats
    /\ outcome = "none"
    /\ faults = 0
    /\ runs = 0
    /\ nmods = 0
    /\ hist = [HistInit EXCEPT !.written = [f \in Files |-> {<<0, tree[f]>>}]]

IndexInit(m, e) == IndexInitOn([f \in Files |-> 1], {}, m, e)

Init ==
    /\ \E m \in MaxChecksumSizes, e \in BOOLEAN : IndexInit(m, e)
    /\ CleanupAtRest
    /\ HashAtRest
    /\ WalkAtRest

(***************************************************************************)
(* The environment, between two operations: a file is rewritten (new       *)
(* content, new mtime), or its read permission is taken away (chmod, which *)
(* leaves content, size and mtime alone).                                  *)
(***************************************************************************)
Modify(f, c) ==
    /\ pc = "idle"
    /\ nmods < MaxMods
    /\ c # fs[f].content
    /\ nmods' = nmods + 1
    /\ clock' = clock + 1
    /\ fs' = [fs EXCEPT ![f].content = c, ![f].mtime = clock + 1]
    /\ hist' = [hist EXCEPT !.written[f] = @ \cup {<<clock + 1, c>>},
                            !.mods = @ \cup {f}]
    /\ UNCHANGED <<catalog, cfg, pc, op, batch_size, todo, fb, sizes, stats,
                   outcome, faults, runs>>
    /\ UNCHANGED <<cleanupVars, hashVars, scanVars>>

Protect(f) ==
    /\ pc = "idle"
    /\ nmods < MaxMods
    /\ fs[f].readable
    /\ nmods' = nmods + 1
    /\ fs' = [fs EXCEPT ![f].readable = FALSE]
    /\ hist' = [hist EXCEPT !.prot = @ \cup {f}]
    /\ UNCHANGED <<clock, catalog, cfg, pc, op, batch_size, todo, fb, sizes,
                   stats, outcome, faults, runs>>
    /\ UNCHANGED <<cleanupVars, hashVars, scanVars>>

(***************************************************************************)
(* update_database and index_files_without_checksums.                      *)
(***************************************************************************)
\* the records of a queried table that Phase 2 takes up: those without a
\* checksum whose size another record shares (size 0 left out under
\* skip_empty_files)
SelectedOf(q) ==
    {f \in DOMAIN q :
        /\ q[f].checksum = Null
        /\ \E g \in DOMAIN q \ {f} : q[g].size = q[f].size
        /\ cfg.skip_empty_files => q[f].size > 0}

\* the operation before this one was a Phase 2 that returned without a store
\* fault, having hashed every record it took up, and the tree was left alone
\* since
AfterCompletePhase2 ==
    /\ op \in {"phase2", "two_phase"}
    /\ pc = "idle" /\ outcome = "returned"
    /\ ~hist.rejected
    /\ hist.mods = {} /\ hist.prot = {}
    /\ SelectedOf(hist.queried) \subseteq hist.hashed

\* what a run starting now records about the runs before it
HistAtStart(resume) ==
    [hist EXCEPT !.cat0 = catalog,
                 !.prevPhase2 = AfterCompletePhase2,
                 !.prevHashed = hist.hashed,
                 !.calc0 = stats.checksum_calculations,
                 !.reuse0 = stats.checksum_reuses,
                 !.prevOk = op = "update" /\ outcome = "returned"
                            /\ ~hist.rejected,
                 !.between = hist.mods,
                 !.betweenProt = hist.prot,
                 !.mods = {}, !.prot = {}, !.rejected = FALSE,
                 !.resumed = resume,
                 !.expect = IF resume THEN hist.expect ELSE Uninterrupted,
                 !.done0 = IF resume THEN hist.done0 \cup hist.done ELSE {},
                 !.done = {}, !.hashed = {}, !.bulk = NoBulk,
                 !.queried = <<>>]

\* the head of update_database: reset the per-scan counters, start the walk
StartUpdate(bs) ==
    /\ pc = "idle"
    /\ runs < MaxRuns
    /\ runs' = runs + 1
    /\ clock' = clock + 1
    /\ pc' = "batch"
    /\ op' = "update"
    /\ batch_size' = bs
    /\ todo' = ScanDirectory
    /\ stats' = [stats EXCEPT !.skipped_files = 0, !.skipped_checksums = 0,
                              !.permission_errors = 0]
    /\ hist' = HistAtStart(op = "update" /\ outcome = "aborted"
                           /\ hist.mods = {} /\ hist.prot = {}
                           /\ ~hist.rejected)
    /\ UNCHANGED <<fs, catalog, cfg, fb, sizes, outcome, faults, nmods>>
    /\ UNCHANGED <<cleanupVars, hashVars, scanVars>>

\* index_files_without_checksums: max_checksum_size = -1, then update_database
StartPhase1(bs) ==
    /\ pc = "idle"
    /\ runs < MaxRuns
    /\ runs' = runs + 1
    /\ clock' = clock + 1
    /\ pc' = "batch"
    /\ op' = "phase1"
    /\ batch_size' = bs
    /\ todo' = ScanDirectory
    /\ cfg' = [cfg EXCEPT !.max_checksum_size = -1]
    /\ stats' = [stats EXCEPT !.skipped_files = 0, !.skipped_checksums = 0,
                              !.permission_errors = 0]
    /\ hist' = HistAtStart(FALSE)
    /\ UNCHANGED <<fs, catalog, fb, sizes, outcome, faults, nmods>>
    /\ UNCHANGED <<cleanupVars, hashVars, scanVars>>

\* two_phase_indexing: reset_optimization_counters, then Phase 1
StartTwoPhase(bs) ==
    /\ pc = "idle"
    /\ runs < MaxRuns
    /\ runs' = runs + 1
    /\ clock' = clock + 1
    /\ pc' = "batch"
    /\ op' = "two_phase"
    /\ batch_size' = bs
    /\ todo' = ScanDirectory
    /\ cfg' = [cfg EXCEPT !.max_checksum_size = -1]
    /\ stats' = NoStats
    /\ hist' = HistAtStart(FALSE)
    /\ UNCHANGED <<fs, catalog, fb, sizes, outcome, faults, nmods>>
    /\ UNCHANGED <<cleanupVars, hashVars, scanVars>>

\* _process_batch on the next batch_size paths of the walk.  failAt = -1:
\* the bulk lookup fails; failAt = n > 0: the store rejects statement n.
ProcessBatch(failAt) ==
    /\ pc = "batch"
    /\ todo # <<>>
    /\ failAt # 0 => faults < MaxFaults
    /\ LET paths == Take(todo, batch_size)
           unchanged == {f \in Range(paths) : IsUnchanged(f)}
           skipped == {f \in Range(paths) \ unchanged :
                          ~ShouldCalculateChecksum(cfg, Stat(f).size)}
           checksums == CalculateChecksums(FilesNeedingChecksums(paths))
           inserts == InsertData(paths, checksums)
           updates == UpdateData(paths, checksums)
           bulk == BulkDatabaseOperations(catalog, inserts, updates, failAt,
                                          clock)
       IN  /\ failAt <= Len(inserts) + Len(updates)
           /\ todo' = Drop(todo, batch_size)
           /\ faults' = IF failAt # 0 THEN faults + 1 ELSE faults
           /\ IF failAt = -1
              THEN /\ pc' = "fallback"
                   /\ fb' = paths
                   /\ hist' = [hist EXCEPT !.rejected = TRUE]
                   /\ UNCHANGED <<catalog, stats>>
              ELSE /\ stats' = [stats EXCEPT
                         !.checksum_reuses = @ + Cardinality(
                             {f \in unchanged : catalog[f].checksum # Null}),
                         !.skipped_files = @ + Cardinality(unchanged),
                         !.skipped_checksums = @ + Cardinality(skipped),
                         !.checksum_calculations =
                             @ + Cardinality(DOMAIN checksums)]
                   /\ catalog' = bulk.cat
                   /\ pc' = IF bulk.raised THEN "fallback" ELSE "batch"
                   /\ fb' = IF bulk.raised THEN paths ELSE <<>>
                   /\ hist' = [hist EXCEPT
                         !.rejected = @ \/ bulk.raised,
                         !.hashed = @ \cup DOMAIN checksums,
                         !.done = IF bulk.raised THEN @ ELSE @ \cup Range(paths),
                         !.bulk = [rows |-> inserts \o updates,
                                   raised |-> bulk.raised,
                                   failAt |-> failAt, left |-> Len(todo)]]
    /\ UNCHANGED <<fs, clock, cfg, op, batch_size, sizes, outcome, runs, nmods>>
    /\ UNCHANGED <<cleanupVars, hashVars, scanVars>>

\* one iteration of _process_batch_individually; every statement commits on
\* its own, and a rejected statement is counted and skipped
ProcessIndividually(fail) ==
    /\ pc = "fallback"
    /\ fb # <<>>
    /\ fail => faults < MaxFaults
    /\ LET f == Head(fb)
           info == GetFileInfo(f)
           row == [key |-> f, checksum |-> info.checksum,
                   mtime |-> Isoformat(Stat(f).mtime), size |-> Stat(f).size]
           write == /\ info.ok
                    /\ f \in DOMAIN catalog =>
                           \/ info.checksum # catalog[f].checksum
                           \/ Stat(f).mtime # catalog[f].mtime
                           \/ Stat(f).size # catalog[f].size
       IN  /\ fail => write
           /\ faults' = IF fail THEN faults + 1 ELSE faults
           /\ stats' = [stats EXCEPT
                  !.checksum_reuses = @ + info.reuse,
                  !.checksum_calculations = @ + info.calc,
                  !.skipped_checksums = @ + info.skip,
                  !.skipped_files = @ + IF info.ok /\ ~write THEN 1 ELSE 0]
           /\ catalog' = IF ~write \/ fail THEN catalog
                         ELSE IF f \in DOMAIN catalog
                              THEN UpdateRow(catalog, row, clock)
                              ELSE InsertRow(catalog, row, clock)
           /\ hist' = [hist EXCEPT
                  !.hashed = IF info.calc = 1 THEN @ \cup {f} ELSE @]
    /\ fb' = Tail(fb)
    /\ pc' = IF Tail(fb) = <<>> THEN "batch" ELSE "fallback"
    /\ UNCHANGED <<fs, clock, cfg, op, batch_size, todo, sizes, outcome, runs,
                   nmods>>
    /\ UNCHANGED <<cleanupVars, hashVars, scanVars>>

\* the walk is exhausted: update_database returns (and the finally clause of
\* index_files_without_checksums restores max_checksum_size)
FinishUpdate ==
    /\ pc = "batch"
    /\ todo = <<>>
    /\ op # "two_phase"
    /\ pc' = "idle"
    /\ outcome' = "returned"
    /\ cfg' = [cfg EXCEPT !.max_checksum_size = cfg.configured]
    /\ UNCHANGED <<fs, clock, catalog, op, batch_size, todo, fb, sizes, stats,
                   faults, runs, nmods, hist>>
    /\ UNCHANGED <<cleanupVars, hashVars, scanVars>>

\* Phase 1 of two_phase_indexing is over: max_checksum_size is restored and
\* calculate_checksums_for_duplicates(batch_size // 2) issues its size query
FinishPhase1OfTwo ==
    /\ pc = "batch"
    /\ todo = <<>>
    /\ op = "two_phase"
    /\ cfg' = [cfg EXCEPT !.max_checksum_size = cfg.configured]
    /\ clock' = clock + 1
    /\ batch_size' = batch_size \div 2
    /\ LET duplicate_sizes ==
               SortedSizes(DuplicateSizesOf(catalog, cfg.skip_empty_files))
       IN  /\ sizes' = duplicate_sizes
           /\ pc' = IF duplicate_sizes = <<>> THEN "idle" ELSE "phase2"
           /\ outcome' = IF duplicate_sizes = <<>> THEN "returned" ELSE outcome
    /\ hist' = [hist EXCEPT !.queried = catalog]
    /\ UNCHANGED <<fs, catalog, op, todo, fb, stats, faults, runs, nmods>>
    /\ UNCHANGED <<cleanupVars, hashVars, scanVars>>

\* the process is killed in the middle of an operation: what was committed
\* stays in the database file, everything in memory is gone and the next
\* FileIndexer starts from its constructor's counters
Abort ==
    /\ pc # "idle"
    /\ pc' = "idle"
    /\ outcome' = "aborted"
    /\ todo' = <<>>
    /\ fb' = <<>>
    /\ sizes' = <<>>
    /\ cfg' = [cfg EXCEPT !.max_checksum_size = cfg.configured]
    /\ stats' = NoStats
    /\ UNCHANGED <<fs, clock, catalog, op, batch_size, faults, runs, nmods, hist>>
    /\ UNCHANGED <<cleanupVars, hashVars, scanVars>>


(***************************************************************************)
(* calculate_checksums_for_duplicates (Phase 2).                           *)
(***************************************************************************)
\* the duplicate_sizes query; nothing to do when it is empty
StartPhase2(bs) ==
    /\ pc = "idle"
    /\ runs < MaxRuns
    /\ runs' = runs + 1
    /\ clock' = clock + 1
    /\ op' = "phase2"
    /\ batch_size' = bs
    /\ sizes' = SortedSizes(DuplicateSizes)
    /\ pc' = IF DuplicateSizes = {} THEN "idle" ELSE "phase2"
    /\ outcome' = IF DuplicateSizes = {} THEN "returned" ELSE outcome
    /\ hist' = [HistAtStart(FALSE) EXCEPT !.queried = catalog]
    /\ UNCHANGED <<fs, catalog, cfg, todo, fb, stats, faults, nmods>>
    /\ UNCHANGED <<cleanupVars, hashVars, scanVars>>

\* the next size group: fetch its rows that have no checksum
NextSize ==
    /\ pc = "phase2"
    /\ todo = <<>>
    /\ sizes # <<>>
    /\ IF cfg.skip_empty_files /\ Head(sizes) = 0
       THEN /\ sizes' = Tail(sizes)
            /\ todo' = <<>>
            /\ UNCHANGED <<pc, outcome>>
       ELSE IF batch_size = 0
       THEN \* range(0, len(file_paths), 0) raises ValueError
            /\ sizes' = <<>>
            /\ todo' = <<>>
            /\ pc' = "idle"
            /\ outcome' = "raised"
       ELSE /\ sizes' = Tail(sizes)
            /\ todo' = FilesWithSize(Head(sizes))
            /\ UNCHANGED <<pc, outcome>>
    /\ UNCHANGED <<fs, clock, catalog, cfg, op, batch_size, fb, stats,
                   faults, runs, nmods, hist>>
    /\ UNCHANGED <<cleanupVars, hashVars, scanVars>>

\* _calculate_checksums_for_files on the next batch_size paths of the group
ChecksumsForFiles(failAt) ==
    /\ pc = "phase2"
    /\ todo # <<>>
    /\ failAt # 0 => faults < MaxFaults
    /\ LET paths == Take(todo, batch_size)
           valid == SelectSeq(paths, LAMBDA f : ShouldProcessFile(f, TRUE))
           checksums == CalculateChecksums(valid)
           update_data == SelectSeq(valid, LAMBDA f : f \in DOMAIN checksums)
           commit == CommitChecksums(catalog, update_data, checksums, failAt,
                                     clock)
       IN  /\ failAt >= 0
           /\ failAt <= Len(update_data)
           /\ todo' = Drop(todo, batch_size)
           /\ faults' = IF failAt # 0 THEN faults + 1 ELSE faults
           /\ stats' = [stats EXCEPT
                  !.skipped_checksums = @ + Len(paths) - Len(valid),
                  !.checksum_calculations = @ + Cardinality(DOMAIN checksums)]
           /\ catalog' = commit.cat
           /\ hist' = [hist EXCEPT
                  !.rejected = @ \/ commit.failed,
                  !.hashed = @ \cup DOMAIN checksums]
    /\ UNCHANGED <<fs, clock, cfg, pc, op, batch_size, fb, sizes, outcome, runs,
                   nmods>>
    /\ UNCHANGED <<cleanupVars, hashVars, scanVars>>

\* every size group is processed: Phase 2 returns
FinishPhase2 ==
    /\ pc = "phase2"
    /\ todo = <<>>
    /\ sizes = <<>>
    /\ pc' = "idle"
    /\ outcome' = "returned"
    /\ UNCHANGED <<fs, clock, catalog, cfg, op, batch_size, todo, fb, sizes,
                   stats, faults, runs, nmods, hist>>
    /\ UNCHANGED <<cleanupVars, hashVars, scanVars>>

(***************************************************************************)
(* The indexing specification.                                             *)
(***************************************************************************)
Next ==
    \/ \E f \in Files, c \in Contents : Modify(f, c)
    \/ \E f \in Files : Protect(f)
    \/ \E bs \in 1..MaxBatch : StartUpdate(bs)
    \/ \E bs \in 1..MaxBatch : StartPhase1(bs)
    \/ \E failAt \in -1..MaxBatch : ProcessBatch(failAt)
    \/ \E fail \in BOOLEAN : ProcessIndividually(fail)
    \/ FinishUpdate
    \/ \E bs \in 1..MaxBatch : StartPhase2(bs)
    \/ NextSize
    \/ \E failAt \in 0..MaxBatch : ChecksumsForFiles(failAt)
    \/ FinishPhase2
    \/ Abort

Spec == Init /\ [][Next]_vars

TypeOK ==
    /\ pc \in {"idle", "batch", "fallback", "phase2"}
    /\ DOMAIN catalog \subseteq Files
    /\ clock <= 2 * runs + nmods
    /\ runs \in 0..MaxRuns
    /\ nmods \in 0..MaxMods
    /\ faults \in 0..MaxFaults


(***************************************************************************)
(* The indexing operations over a tree that does not change: any contents, *)
(* every file readable, an empty catalog to begin with.                    *)
(***************************************************************************)
\* the trees tried: every pattern of equal and different sizes and contents
Trees == {t \in [Files -> Contents] : t["a"] \in {1, 3}}

InitPhases ==
    /\ \E t \in Trees, m \in MaxChecksumSizes, e \in BOOLEAN :
           IndexInitOn(t, {}, m, e)
    /\ CleanupAtRest
    /\ HashAtRest
    /\ WalkAtRest

NextPhases ==
    \/ \E bs \in 1..MaxBatch : StartTwoPhase(bs)
    \/ \E bs \in 1..MaxBatch : StartUpdate(bs)
    \/ \E bs \in 1..MaxBatch : StartPhase1(bs)
    \/ \E failAt \in -1..MaxBatch : ProcessBatch(failAt)
    \/ \E fail \in BOOLEAN : ProcessIndividually(fail)
    \/ FinishUpdate
    \/ FinishPhase1OfTwo
    \/ \E bs \in 1..MaxBatch : StartPhase2(bs)
    \/ NextSize
    \/ \E failAt \in 0..MaxBatch : ChecksumsForFiles(failAt)
    \/ FinishPhase2
    \/ Abort

SpecPhases == InitPhases /\ [][NextPhases]_vars

(***************************************************************************)
(* Properties of the indexing pipeline.                                    *)
(***************************************************************************)
\* an update_database run has just returned
UpdateReturned == pc = "idle" /\ op = "update" /\ outcome = "returned"

\* the tree has not changed since the last operation began
TreeUnchanged == hist.mods = {} /\ hist.prot = {}

\* the run that just returned is the second of two update_database runs in
\* a row, the first without a store fault, the tree unchanged throughout
SecondRunSameTree ==
    /\ UpdateReturned
    /\ hist.prevOk
    /\ hist.between = {} /\ hist.betweenProt = {}
    /\ TreeUnchanged

WithChecksum(cat) == {f \in DOMAIN cat : cat[f].checksum # Null}

\* C1: a second update_database run over an unchanged tree leaves every
\* record (checksum, mtime, size, indexed_at) as it was, calculates no
\* checksum, and counts one reuse per record that stores a checksum.
C1_Idempotence ==
    SecondRunSameTree =>
        /\ catalog = hist.cat0
        /\ stats.checksum_calculations = hist.calc0
        /\ hist.hashed = {}
        /\ stats.checksum_reuses - hist.reuse0
               = Cardinality(WithChecksum(catalog))

\* a second run over an unchanged tree that had checksums to reuse, written
\* at an mtime with a sub-second part
C1_Witness ==
    /\ SecondRunSameTree
    /\ WithChecksum(catalog) # {}
    /\ \E f \in DOMAIN catalog : catalog[f].mtime.usec # 0

\* the run that just returned follows a complete update_database run, and
\* between the two exactly one file was rewritten; the store rejected nothing
OneFileModified ==
    /\ UpdateReturned
    /\ hist.prevOk
    /\ Cardinality(hist.between) = 1 /\ hist.betweenProt = {}
    /\ TreeUnchanged
    /\ ~hist.rejected

\* reuses counted for the files that were not rewritten
ReusesOfOthers ==
    stats.checksum_reuses - hist.reuse0
        = Cardinality(WithChecksum(hist.cat0) \ hist.between)

Hashable(f) == fs[f].readable /\ ShouldCalculateChecksum(cfg, Stat(f).size)

HeldAt(f, dt, n) ==
    {w[2] : w \in {v \in hist.written[f] :
                      FromTimestamp(v[1]) = dt /\ Size(v[2]) = n}}

\* C3: every record with a checksum holds the digest of the content the
\* file had at the record's stored modification time and size.
C3_ChecksumValid ==
    \A f \in DOMAIN catalog :
        catalog[f].checksum # Null =>
            \E c \in HeldAt(f, catalog[f].mtime, catalog[f].size) :
                catalog[f].checksum = Hexdigest(c)

\* the rows of the batch last handed to _bulk_database_operations that the
\* table now holds
Applied(cat) ==
    {i \in 1..Len(hist.bulk.rows) :
        LET r == hist.bulk.rows[i]
        IN  /\ r.key \in DOMAIN cat
            /\ cat[r.key].checksum = r.checksum
            /\ cat[r.key].mtime = ParseTimestamp(r.mtime)
            /\ cat[r.key].size = r.size}

\* this step is a call of _bulk_database_operations
BulkStep == hist'.bulk # hist.bulk /\ hist'.bulk # NoBulk

\* C7: _bulk_database_operations applies all rows of the batch or none; when
\* a statement fails the table is exactly as it was before the batch.
C7_AtomicBatch ==
    [][BulkStep =>
          IF hist'.bulk.raised
          THEN catalog' = catalog
          ELSE /\ \A i \in 1..Len(hist'.bulk.rows) :
                      LET r == hist'.bulk.rows[i]
                      IN  /\ r.key \in DOMAIN catalog'
                          /\ catalog'[r.key]
                                 = [checksum |-> r.checksum,
                                    mtime |-> ParseTimestamp(r.mtime),
                                    size |-> r.size, indexed_at |-> clock]
               /\ \A f \in DOMAIN catalog' :
                      (\A i \in 1..Len(hist'.bulk.rows) :
                           hist'.bulk.rows[i].key # f)
                          => f \in DOMAIN catalog /\ catalog'[f] = catalog[f]
    ]_vars

\* a batch of two rows whose second statement was rejected
C7_Witness ==
    /\ hist.bulk.raised
    /\ hist.bulk.failAt = 2
    /\ Len(hist.bulk.rows) = 2

\* the store rejected the commit of a batch of the operation in progress
CommitRejected == hist.bulk.raised \/ (op = "phase2" /\ hist.rejected)

\* C8: when the store rejects the commit of a batch, during update_database
\* or during Phase 2, the operation ends there and the error reaches its
\* caller.
C8_FailureSurfaces ==
    CommitRejected => pc = "idle" /\ outcome \in {"raised", "aborted"}

\* C9: the table never holds some but not all rows of a batch, and holds
\* none of the rows of a batch whose commit failed.
C9_NoPartialBatch ==
    op = "update" =>
        \/ Applied(catalog) = {}
        \/ Applied(catalog) = 1..Len(hist.bulk.rows) /\ ~hist.bulk.raised

\* the files whose batch was committed before the last abort
Committed == hist.done \cup (IF hist.resumed THEN hist.done0 ELSE {})

\* C10: after an aborted update_database run the files of every batch
\* committed before the abort have their final record; a complete run that
\* follows over the unchanged tree ends with the (checksum, mtime, size) an
\* uninterrupted run produces and hashes no file of a committed batch.
C10_CrashResume ==
    /\ (pc = "idle" /\ op = "update" /\ outcome = "aborted"
            /\ TreeUnchanged /\ ~hist.rejected) =>
           \A f \in Committed :
               /\ f \in DOMAIN catalog <=> f \in DOMAIN hist.expect
               /\ f \in DOMAIN catalog => Columns(catalog)[f] = hist.expect[f]
    /\ (UpdateReturned /\ hist.resumed /\ TreeUnchanged /\ ~hist.rejected) =>
           /\ Columns(catalog) = hist.expect
           /\ hist.hashed \cap hist.done0 = {}

\* a resumed run that found a committed batch and hashed the rest
C10_Witness ==
    /\ UpdateReturned /\ hist.resumed /\ TreeUnchanged /\ ~hist.rejected
    /\ hist.done0 # {}
    /\ hist.hashed # {}
    /\ WithChecksum(catalog) \cap hist.done0 # {}

(***************************************************************************)
(* cleanup_deleted_files: the reconciliation sweep.                        *)
(***************************************************************************)
PathRank(p) == IndexOf(DirOrder, p)
NameRank(n) == IndexOf(NameOrder, n)

\* ORDER BY path, filename
RECURSIVE SortKeys(_)
SortKeys(S) ==
    IF S = {} THEN <<>>
    ELSE LET m == CHOOSE k \in S : \A j \in S :
                      \/ PathRank(k.path) < PathRank(j.path)
                      \/ /\ k.path = j.path
                         /\ NameRank(k.filename) <= NameRank(j.filename)
         IN  <<m>> \o SortKeys(S \ {m})

\* WHERE (path > ? OR (path = ? AND filename > ?))
AfterCursor(k, last_path, last_filename) ==
    \/ PathRank(k.path) > PathRank(last_path)
    \/ k.path = last_path /\ NameRank(k.filename) > NameRank(last_filename)

\* a page query that skips (page_num - 1) * page_size rows instead
PageQueryByOffset(table, page_num, last_path, last_filename, page_size) ==
    Take(Drop(SortKeys(table), (page_num - 1) * page_size), page_size)

\* the page query: the first page_size rows, or those after the cursor
PageQuery(table, page_num, last_path, last_filename, page_size) ==
    IF page_num = 1
    THEN Take(SortKeys(table), page_size)
    ELSE Take(SortKeys({k \in table :
                           AfterCursor(k, last_path, last_filename)}),
              page_size)

\* files_by_directory: the page's directories in order of first appearance
PageDirectories(page) ==
    SelectSeq(DirOrder, LAMBDA d : \E i \in 1..Len(page) : page[i].path = d)

FilesInDir(page, d) == SelectSeq(page, LAMBDA k : k.path = d)

NoError == "None"
PermissionDenied == "Permission denied checking directory"
OtherError == "Error checking directory"

\* a check that finds every directory
CheckDirectoryAlwaysExists(d) ==
    [exists |-> TRUE, error_message |-> NoError]

\* _check_directory_existence: (exists, error_message)
CheckDirectoryExistence(d) ==
    [exists |-> disk.dir[d] = "present",
     error_message |-> IF disk.dir[d] = "denied" THEN PermissionDenied
                       ELSE IF disk.dir[d] = "oserror" THEN OtherError
                       ELSE NoError]

\* _is_subdirectory_of_deleted_paths
IsSubdirectoryOfDeletedPaths(p, deleted_parent_paths) ==
    \E q \in deleted_parent_paths : IsRelativeTo(p, q)

\* marking that leaves the marked files out of the count of checked files
MarkDirectoryFilesUncounted(d, files, acc) ==
    [acc EXCEPT !.deleted_directories = @ \cup {d},
                !.deleted_files = @ \o files,
                !.by_directory = @ + Len(files)]

\* _mark_directory_files_as_deleted, with the caller's counting
MarkDirectoryFilesAsDeleted(d, files, acc) ==
    [acc EXCEPT !.deleted_directories = @ \cup {d},
                !.deleted_files = @ \o files,
                !.by_directory = @ + Len(files),
                !.checked_files = @ + Len(files)]

\* error handling that gives up the directory whatever the error was
HandleErrorAsDeleted(d, files, error_message, acc) ==
    MarkDirectoryFilesAsDeleted(d, files, acc)

\* _handle_directory_access_error
HandleDirectoryAccessError(d, files, error_message, acc) ==
    IF error_message = PermissionDenied
    THEN [acc EXCEPT !.to_process = @ \o <<d>>, !.permission_errors = @ + 1]
    ELSE MarkDirectoryFilesAsDeleted(d, files, acc)

\* one iteration of the Phase 1 loop over files_by_directory
CheckDirectory(d, files, acc) ==
    IF IsSubdirectoryOfDeletedPaths(d, acc.deleted_parent_paths)
    THEN MarkDirectoryFilesAsDeleted(d, files, acc)
    ELSE LET chk == CheckDirectoryExistence(d)
             probed == [acc EXCEPT !.dir_probes = @ \o <<d>>]
         IN  IF chk.error_message # NoError
             THEN HandleDirectoryAccessError(d, files, chk.error_message,
                                             probed)
             ELSE IF ~chk.exists
             THEN [MarkDirectoryFilesAsDeleted(d, files, probed)
                      EXCEPT !.deleted_parent_paths = @ \cup {d}]
             ELSE [probed EXCEPT !.to_process = @ \o <<d>>]

RECURSIVE CheckDirectories(_, _, _)
CheckDirectories(page, dirs, acc) ==
    IF dirs = <<>> THEN acc
    ELSE CheckDirectories(page, Tail(dirs),
             CheckDirectory(Head(dirs), FilesInDir(page, Head(dirs)), acc))

\* an existence check that takes an error for absence
FileExistsOrError(k) ==
    IF disk.file[k] = "error" THEN "absent" ELSE disk.file[k]

\* Path(directory_path / filename).exists(): present, absent, or an error
FileExists(k) == disk.file[k]

\* the Phase 2 loop over the files of the directories left to check
RECURSIVE CheckFiles(_, _)
CheckFiles(files, acc) ==
    IF files = <<>> THEN acc
    ELSE LET k == Head(files)
             seen == [acc EXCEPT !.checked_files = @ + 1,
                                 !.file_probes = @ \o <<k>>]
         IN  CheckFiles(Tail(files),
                 IF FileExists(k) = "absent"
                 THEN [seen EXCEPT !.deleted_files = @ \o <<k>>,
                                   !.individually = @ + 1]
                 ELSE IF FileExists(k) = "error"
                 THEN [seen EXCEPT !.permission_errors = @ + 1]
                 ELSE seen)

RECURSIVE Flatten(_)
Flatten(ss) == IF ss = <<>> THEN <<>> ELSE Head(ss) \o Flatten(Tail(ss))

\* the page_* accumulators after both phases of one page
ProcessPage(page) ==
    LET start == [deleted_files |-> <<>>, deleted_directories |-> {},
                  deleted_parent_paths |-> {}, to_process |-> <<>>,
                  permission_errors |-> 0, checked_files |-> 0,
                  by_directory |-> 0, individually |-> 0,
                  dir_probes |-> <<>>, file_probes |-> <<>>]
        phase1 == CheckDirectories(page, PageDirectories(page), start)
        InDir(d) == FilesInDir(page, d)
        remaining_files == Flatten(MapSeq(InDir, phase1.to_process))
    IN  CheckFiles(remaining_files, phase1)

\* _delete_files_from_database
DeleteFilesFromDatabase(table, file_records, dry_run) ==
    IF dry_run THEN table ELSE table \ Range(file_records)

Count(s, x) == Cardinality({i \in 1..Len(s) : s[i] = x})

\* the head of cleanup_deleted_files: count the rows, return if there are none
StartCleanup(ps, dry) ==
    /\ sweep.pc = "idle"
    /\ dirpass.pc = "idle"
    /\ IF rows = {}
       THEN /\ sweep' = [sweep EXCEPT !.deleted_files = 0]
            /\ result' = [total_checked |-> 0, deleted_files |-> 0,
                          deleted_directories |-> 0, permission_errors |-> 0]
       ELSE /\ sweep' = [pc |-> "paging", page_num |-> 1, last_path |-> <<>>,
                         last_filename |-> "", page_size |-> ps,
                         dry_run |-> dry, deleted_files |-> 0]
            /\ result' = NoResult
    /\ totals' = NoTotals
    /\ probes' = [NoProbes EXCEPT !.rows0 = rows]
    /\ UNCHANGED <<disk, rows, dirpass>>
    /\ UNCHANGED <<indexVars, hashVars, scanVars>>

\* one iteration of the paging loop on a page that is not empty
CleanupPage ==
    /\ sweep.pc = "paging"
    /\ LET page == PageQuery(rows, sweep.page_num, sweep.last_path,
                             sweep.last_filename, sweep.page_size)
           acc == ProcessPage(page)
       IN  /\ page # <<>>
           /\ rows' = DeleteFilesFromDatabase(rows, acc.deleted_files,
                                              sweep.dry_run)
           /\ sweep' = [sweep EXCEPT !.page_num = @ + 1,
                                     !.last_path = page[Len(page)].path,
                                     !.last_filename = page[Len(page)].filename]
           /\ totals' = [deleted_files |-> totals.deleted_files
                                               \o acc.deleted_files,
                         deleted_directories |-> totals.deleted_directories
                                               \cup acc.deleted_directories,
                         permission_errors |-> totals.permission_errors
                                               + acc.permission_errors,
                         checked_files |-> totals.checked_files
                                               + acc.checked_files,
                         checked_directories |-> totals.checked_directories
                                               + Len(PageDirectories(page)),
                         by_directory |-> totals.by_directory
                                               + acc.by_directory,
                         individually |-> totals.individually
                                               + acc.individually]
           /\ probes' = [probes EXCEPT
                  !.dir = [d \in Dirs |-> @[d] + Count(acc.dir_probes, d)],
                  !.file = [k \in AllKeys |-> @[k] + Count(acc.file_probes, k)],
                  !.seen = [k \in AllKeys |-> @[k] + Count(page, k)]]
    /\ UNCHANGED <<disk, result, dirpass>>
    /\ UNCHANGED <<indexVars, hashVars, scanVars>>

\* the page query returns nothing: summary, counter, returned dictionary
FinishCleanup ==
    /\ sweep.pc = "paging"
    /\ PageQuery(rows, sweep.page_num, sweep.last_path, sweep.last_filename,
                 sweep.page_size) = <<>>
    /\ sweep' = [sweep EXCEPT !.pc = "idle",
                              !.deleted_files = Len(totals.deleted_files)]
    /\ result' = [total_checked |-> totals.checked_files,
                  deleted_files |-> Len(totals.deleted_files),
                  deleted_directories |->
                      Cardinality(totals.deleted_directories),
                  permission_errors |-> totals.permission_errors]
    /\ UNCHANGED <<disk, rows, totals, probes, dirpass>>
    /\ UNCHANGED <<indexVars, hashVars, scanVars>>

\* what the existence checks can answer: files of an absent directory are
\* absent, and so are the directories below it and their files
DiskStates ==
    {dk \in [dir : [Dirs -> {"present", "absent", "denied", "oserror"}],
             file : [AllKeys -> {"present", "absent", "error"}]] :
        /\ \A d, q \in Dirs :
               dk.dir[q] = "absent" /\ IsRelativeTo(d, q) => dk.dir[d] = "absent"
        /\ \A k \in AllKeys :
               dk.dir[k.path] = "absent" => dk.file[k] = "absent"}

\* the catalog of a fully indexed tree, after the tree has changed
CleanupInit ==
    /\ IndexInit(0, TRUE)
    /\ disk \in DiskStates
    /\ rows = AllKeys
    /\ sweep = SweepIdle
    /\ totals = NoTotals
    /\ probes = NoProbes
    /\ result = NoResult
    /\ dirpass = DirPassIdle
    /\ HashAtRest
    /\ WalkAtRest

CleanupNext ==
    \/ \E ps \in 1..MaxPage, dry \in BOOLEAN : StartCleanup(ps, dry)
    \/ CleanupPage
    \/ FinishCleanup

SpecCleanup == CleanupInit /\ [][CleanupNext]_vars

CleanupTypeOK ==
    /\ sweep.pc \in {"idle", "paging"}
    /\ rows \subseteq AllKeys
    /\ Range(totals.deleted_files) \subseteq probes.rows0
    /\ sweep.page_num \in 1..(Cardinality(AllKeys) + 1)

(***************************************************************************)
(* Properties of the reconciliation sweep.                                 *)
(***************************************************************************)
\* cleanup_deleted_files has returned after paging through the catalog
CleanupReturned ==
    sweep.pc = "idle" /\ result # NoResult /\ probes.rows0 # {}

Deleted == Range(totals.deleted_files)

GivenUpWithDirectory(k) == disk.dir[k.path] = "oserror"

Ambiguous(d) == disk.dir[d] \in {"denied", "oserror"}

C6_EachRecordOnce ==
    /\ \A k \in AllKeys : probes.seen[k] <= 1
    /\ \A k \in AllKeys : probes.seen[k] = 1 => k \in probes.rows0
    /\ CleanupReturned => \A k \in probes.rows0 : probes.seen[k] = 1

\* a sweep of several pages that deleted records on a page before the last
C6_Witness ==
    /\ CleanupReturned /\ ~sweep.dry_run
    /\ probes.rows0 = AllKeys
    /\ sweep.page_size = 1
    /\ sweep.page_num = Cardinality(AllKeys) + 1
    /\ Key(<<"d">>, "x") \in Deleted
    /\ Key(<<"e">>, "x") \in rows
    /\ \A k \in AllKeys : probes.seen[k] = 1

(***************************************************************************)
(* Properties of two-phase indexing.                                       *)
(***************************************************************************)
\* two_phase_indexing has returned, having started on an empty catalog and
\* met no store fault
TwoPhaseReturned ==
    /\ pc = "idle" /\ op = "two_phase" /\ outcome = "returned"
    /\ hist.cat0 = <<>>
    /\ ~hist.rejected

\* the checksum a table holds for a path: a digest or null
ChecksumOf(cat, f) == IF f \in DOMAIN cat THEN cat[f].checksum ELSE Null

\* another file of the tree has the size of f
SharesSize(f) ==
    \E g \in Files \ {f} : Size(fs[g].content) = Size(fs[f].content)

\* C11: after two_phase_indexing of a tree from an empty catalog, every file
\* that shares its size with another file holds the checksum (digest or
\* null) that update_database would have given it from the same start.
C11_TwoPhaseEquivalence ==
    TwoPhaseReturned =>
        \A f \in Files :
            SharesSize(f) => ChecksumOf(catalog, f) = ChecksumOf(hist.expect, f)

\* no other record of the table has the size of f's record
UniqueSize(cat, f) ==
    \A g \in DOMAIN cat \ {f} : cat[g].size # cat[f].size

\* C12: all through two_phase_indexing from an empty catalog, a record whose
\* size no other record shares has no checksum.
C12_UniqueSizeNeverHashed ==
    op = "two_phase" /\ hist.cat0 = <<>> =>
        \A f \in DOMAIN catalog :
            UniqueSize(catalog, f) => catalog[f].checksum = Null

\* two_phase_indexing returned having hashed a pair of equal size and left
\* alone a readable file of a size of its own that the policy would hash
C12_Witness ==
    /\ TwoPhaseReturned
    /\ DOMAIN catalog = Files
    /\ \E f \in Files :
           /\ UniqueSize(catalog, f)
           /\ fs[f].readable
           /\ ShouldCalculateChecksum(cfg, catalog[f].size)
           /\ catalog[f].checksum = Null
           /\ \A g \in Files \ {f} : catalog[g].checksum # Null

\* index_files_without_checksums has returned, having started on an empty
\* catalog and met no store fault
Phase1Returned ==
    /\ pc = "idle" /\ op = "phase1" /\ outcome = "returned"
    /\ hist.cat0 = <<>>
    /\ ~hist.rejected

\* C13: after index_files_without_checksums on an empty catalog every walked
\* file has a record with its size and mtime, no record has a checksum, and
\* skipped_checksums is the number of files indexed.
C13_Phase1NoDigests ==
    Phase1Returned =>
        /\ DOMAIN catalog = Files
        /\ \A f \in Files :
               /\ catalog[f].size = Stat(f).size
               /\ catalog[f].mtime = Stat(f).mtime
               /\ catalog[f].checksum = Null
        /\ stats.skipped_checksums = Cardinality(Files)

\* Phase 1 returned over a tree all of whose files the configured policy
\* would have hashed
C13_Witness ==
    /\ Phase1Returned
    /\ cfg.max_checksum_size = cfg.configured
    /\ \A f \in Files : ShouldCalculateChecksum(cfg, Stat(f).size)
    /\ \E f, g \in Files : fs[f].content # fs[g].content
    /\ stats.skipped_checksums = Cardinality(Files)
    /\ \A f \in Files : f \in DOMAIN catalog /\ catalog[f].checksum = Null

(***************************************************************************)
(* Properties of Phase 2's selection.  hist.queried is the table the       *)
(* duplicate_sizes query read, hist.hashed the files hashed since.         *)
(***************************************************************************)
InPhase2 ==
    \/ op = "phase2"
    \/ op = "two_phase" /\ pc \in {"phase2", "idle"} /\ hist.queried # <<>>

\* the records of the queried table that have the size of f's record
Bucket(f) == {g \in DOMAIN hist.queried :
                 hist.queried[g].size = hist.queried[f].size}

NullsOf(S) == {g \in S : hist.queried[g].checksum = Null}

\* C14 as stated: Phase 2 hashes a file only if its size bucket holds more
\* than one record with a null checksum.
C14_OnlyManyUnhashed ==
    InPhase2 =>
        \A f \in hist.hashed :
            f \in DOMAIN hist.queried /\ Cardinality(NullsOf(Bucket(f))) > 1

\* C14: Phase 2 hashes a file only if its record has a null checksum and
\* its size bucket holds more than one record (hashed or not), the bucket
\* of size 0 left out under skip_empty_files.
C14_OnlyUnhashedInSharedBucket ==
    InPhase2 =>
        \A f \in hist.hashed :
            /\ f \in DOMAIN hist.queried
            /\ hist.queried[f].checksum = Null
            /\ Cardinality(Bucket(f)) > 1
            /\ cfg.skip_empty_files => hist.queried[f].size > 0

\* Phase 2 hashed the only un-hashed record of a bucket of two
C14_Witness ==
    /\ InPhase2
    /\ \E f \in hist.hashed :
           /\ f \in DOMAIN hist.queried
           /\ NullsOf(Bucket(f)) = {f}
           /\ Cardinality(Bucket(f)) = 2

\* Phase 2 has returned without a store fault
Phase2Done ==
    InPhase2 /\ pc = "idle" /\ outcome = "returned" /\ ~hist.rejected

\* C15 as stated: the sizes selected are those of at least two records, one
\* of them without a checksum, and the files hashed are exactly the records
\* without a checksum of those sizes.
C15_SelectionExact ==
    Phase2Done =>
        hist.hashed = {f \in DOMAIN hist.queried :
                          /\ hist.queried[f].checksum = Null
                          /\ Cardinality(Bucket(f)) >= 2}

\* C15: the sizes selected are those of at least two records, one of them
\* without a checksum, size 0 left out under skip_empty_files; the files
\* hashed are exactly the records without a checksum of those sizes, and
\* each of them ends with a checksum.
C15_SelectionExactButEmpty ==
    Phase2Done =>
        /\ hist.hashed = {f \in DOMAIN hist.queried :
                             /\ hist.queried[f].checksum = Null
                             /\ Cardinality(Bucket(f)) >= 2
                             /\ cfg.skip_empty_files => hist.queried[f].size > 0}
        /\ \A f \in hist.hashed : catalog[f].checksum # Null

\* Phase 2 returned having hashed a new file beside one that already had its
\* checksum, and having left alone a file whose size no other record has
C15_Witness ==
    /\ Phase2Done
    /\ DOMAIN hist.queried = Files
    /\ \E f, g, h \in Files :
           /\ Bucket(f) = {f, g}
           /\ hist.queried[f].checksum = Null
           /\ hist.queried[g].checksum # Null
           /\ hist.hashed = {f}
           /\ catalog[f].checksum # Null
           /\ hist.queried[h].checksum = Null
           /\ catalog[h].checksum = Null

(***************************************************************************)
(* _calculate_checksums_parallel, one future at a time.  The dictionary    *)
(* it fills is kept as its items in insertion order.                       *)
(***************************************************************************)
\* the longest path list tried
MaxPaths == 3

RECURSIVE SeqsUpTo(_, _)
SeqsUpTo(S, n) ==
    IF n = 0 THEN {<<>>}
    ELSE LET shorter == SeqsUpTo(S, n - 1)
         IN  shorter \cup {Append(q, x) : q \in shorter, x \in S}

\* the dictionary with these items: a later item of a key replaces the earlier
AsMapping(items) ==
    [p \in {items[i][1] : i \in 1..Len(items)} |->
        items[CHOOSE i \in 1..Len(items) :
                  /\ items[i][1] = p
                  /\ \A j \in (i + 1)..Len(items) : items[j][1] # p][2]]

\* a collector that stores whatever the worker returned
CollectAnyResult(items, file_path, checksum) ==
    Append(items, <<file_path, checksum>>)

\* "if checksum: checksums[file_path] = checksum" of the as_completed loop
CollectResult(items, file_path, checksum) ==
    IF checksum # EmptyString
    THEN Append(items, <<file_path, checksum>>)
    ELSE items

\* _calculate_checksums_sequential: the items after the loop over file_paths
RECURSIVE CalculateChecksumsSequential(_)
CalculateChecksumsSequential(file_paths) ==
    IF file_paths = <<>> THEN <<>>
    ELSE LET f == Head(file_paths)
             rest == CalculateChecksumsSequential(Tail(file_paths))
         IN  IF ChecksumWorker(f) # EmptyString
             THEN <<<<f, ChecksumWorker(f)>>>> \o rest
             ELSE rest

\* the call: an empty list returns at once, a disabled pool hashes in
\* sequence, otherwise one future per path is submitted
StartHashing(file_paths, use_parallel_processing) ==
    /\ pool.state = "idle"
    /\ pool' =
         IF file_paths = <<>>
         THEN [PoolIdle EXCEPT !.state = "returned"]
         ELSE IF ~use_parallel_processing
         THEN [state |-> "returned", how |-> "sequential",
               file_paths |-> file_paths, pending |-> {},
               items |-> CalculateChecksumsSequential(file_paths),
               calculations |->
                   Len(CalculateChecksumsSequential(file_paths))]
         ELSE [state |-> "collecting", how |-> "parallel",
               file_paths |-> file_paths, pending |-> 1..Len(file_paths),
               items |-> <<>>, calculations |-> 0]
    /\ UNCHANGED <<indexVars, cleanupVars, scanVars>>

\* ProcessPoolExecutor or submit raises PermissionError / OSError: nothing
\* has been collected, the whole list is hashed in sequence
PoolUnavailable ==
    /\ pool.state = "collecting"
    /\ pool.pending = 1..Len(pool.file_paths)
    /\ pool' = [pool EXCEPT
           !.state = "returned", !.how = "fallback", !.pending = {},
           !.items = CalculateChecksumsSequential(pool.file_paths),
           !.calculations = Len(CalculateChecksumsSequential(pool.file_paths))]
    /\ UNCHANGED <<indexVars, cleanupVars, scanVars>>

\* as_completed yields the future of file_paths[i], whichever finished next
FutureCompletes(i) ==
    /\ pool.state = "collecting"
    /\ i \in pool.pending
    /\ LET file_path == pool.file_paths[i]
           checksum == ChecksumWorker(file_path)
       IN  pool' = [pool EXCEPT
               !.pending = @ \ {i},
               !.items = CollectResult(@, file_path, checksum),
               !.calculations = IF checksum # EmptyString THEN @ + 1 ELSE @,
               !.state = IF pool.pending = {i} THEN "returned" ELSE @]
    /\ UNCHANGED <<indexVars, cleanupVars, scanVars>>

\* any tree, any set of files that cannot be read
InitHash ==
    /\ \E t \in Trees, l \in SUBSET Files : IndexInitOn(t, l, 0, TRUE)
    /\ CleanupAtRest
    /\ HashAtRest
    /\ WalkAtRest

NextHash ==
    \/ \E file_paths \in SeqsUpTo(Files, MaxPaths), par \in BOOLEAN :
           StartHashing(file_paths, par)
    \/ PoolUnavailable
    \/ \E i \in 1..MaxPaths : FutureCompletes(i)

SpecHash == InitHash /\ [][NextHash]_vars

\* C16: whatever the order in which the futures complete, and also when the
\* pool cannot be created, _calculate_checksums_parallel returns the mapping
\* _calculate_checksums_sequential returns for the same paths and tree: a
\* digest for every path that can be read and no entry for the others; the
\* count of calculations agrees too.
C16_ParallelIsSequential ==
    pool.state = "returned" =>
        /\ AsMapping(pool.items)
               = AsMapping(CalculateChecksumsSequential(pool.file_paths))
        /\ AsMapping(pool.items) = CalculateChecksums(pool.file_paths)
        /\ pool.calculations = Len(CalculateChecksumsSequential(pool.file_paths))

\* the pool returned results collected in another order than the list's,
\* with a failed path among them
C16_Witness ==
    /\ pool.state = "returned"
    /\ pool.how = "parallel"
    /\ Len(pool.file_paths) = 3
    /\ \E i \in 1..3 : ~fs[pool.file_paths[i]].readable
    /\ Len(pool.items) = 2
    /\ pool.items # CalculateChecksumsSequential(pool.file_paths)

(***************************************************************************)
(* Properties of a failed hash.                                            *)
(***************************************************************************)
\* the files whose hash the run that just returned needed and could not get:
\* they cannot be read, the policy wants their checksum, and no record of
\* their present size and mtime was written
FailedHashes ==
    {f \in Files : /\ ~fs[f].readable
                   /\ ShouldCalculateChecksum(cfg, Stat(f).size)
                   /\ ~IsUnchanged(f)}

\* C17: when hashing a file fails during update_database on an empty
\* catalog, the run returns, permission_errors has counted the failure, the
\* file gets no checksum, and every other file of the tree is catalogued,
\* with its checksum where the policy wants one.
C17_HashFailureLocal ==
    UpdateReturned /\ ~hist.rejected /\ hist.cat0 = <<>> /\ FailedHashes # {} =>
        /\ stats.permission_errors >= Cardinality(FailedHashes)
        /\ \A f \in FailedHashes : f \notin hist.hashed
        /\ \A g \in Files \ FailedHashes :
               /\ g \in DOMAIN catalog
               /\ ShouldCalculateChecksum(cfg, Stat(g).size) =>
                      catalog[g].checksum # Null

(***************************************************************************)
(* find_duplicates_streaming.                                              *)
(***************************************************************************)
\* the digests in the order ORDER BY f1.checksum sorts their text
DigestOrder == <<Hexdigest(3), Hexdigest(1), Hexdigest(2), Hexdigest(0)>>

RECURSIVE Copies(_, _)
Copies(x, n) == IF n <= 0 THEN <<>> ELSE <<x>> \o Copies(x, n - 1)

\* a self-join ON f1.file_size = f2.file_size
JoinRowsBySize(cat) ==
    LET Partners(f) == {g \in DOMAIN cat \ {f} : cat[g].size = cat[f].size}
        RowsOf(f) == Copies(f, Cardinality(Partners(f)))
        OfDigest(h) ==
            Flatten(MapSeq(RowsOf,
                SelectSeq(WalkOrder, LAMBDA f : f \in DOMAIN cat
                                                /\ cat[f].checksum = h)))
    IN  Flatten(MapSeq(OfDigest, DigestOrder))

\* the rows of the query: f1 once for every other record f2 that has f1's
\* (non-null) checksum, ORDER BY f1.checksum, f1.path, f1.filename
JoinRows(cat) ==
    LET Partners(f) ==
            {g \in DOMAIN cat \ {f} : cat[g].checksum = cat[f].checksum}
        RowsOf(f) == Copies(f, Cardinality(Partners(f)))
        OfDigest(h) ==
            Flatten(MapSeq(RowsOf,
                SelectSeq(WalkOrder, LAMBDA f : f \in DOMAIN cat
                                                /\ cat[f].checksum = h)))
    IN  Flatten(MapSeq(OfDigest, DigestOrder))

\* the "for row in batch" loop: st = [current_checksum, duplicate_group,
\* yielded]
RECURSIVE GroupRows(_, _, _)
GroupRows(cat, batch, st) ==
    IF batch = <<>> THEN st
    ELSE LET row == Head(batch)
             checksum == cat[row].checksum
         IN  GroupRows(cat, Tail(batch),
                 IF st.current_checksum # checksum
                 THEN [current_checksum |-> checksum,
                       duplicate_group |-> <<row>>,
                       yielded |-> IF st.duplicate_group # <<>>
                                   THEN Append(st.yielded, st.duplicate_group)
                                   ELSE st.yielded]
                 ELSE [st EXCEPT !.duplicate_group = Append(@, row)])

\* the "while True" loop over cursor.fetchmany(n)
RECURSIVE FetchLoop(_, _, _, _)
FetchLoop(cat, remaining, n, st) ==
    IF remaining = <<>>
    THEN IF st.duplicate_group # <<>>
         THEN Append(st.yielded, st.duplicate_group)
         ELSE st.yielded
    ELSE FetchLoop(cat, Drop(remaining, n), n,
                   GroupRows(cat, Take(remaining, n), st))

\* find_duplicates_streaming(n): the groups it yields, in order
FindDuplicatesStreaming(cat, n) ==
    FetchLoop(cat, JoinRows(cat), n,
              [current_checksum |-> Null, duplicate_group |-> <<>>,
               yielded |-> <<>>])

\* the groups that report file f
GroupsOf(groups, f) == {i \in 1..Len(groups) : f \in Range(groups[i])}

SameContent(f) == {g \in Files : fs[g].content = fs[f].content}

\* update_database has returned without a store fault; every file can be
\* read and is inside the hashing policy, and no record the run found had
\* been left without a checksum
IndexedInPolicy ==
    /\ UpdateReturned /\ ~hist.rejected
    /\ \A f \in Files :
           fs[f].readable /\ ShouldCalculateChecksum(cfg, Stat(f).size)
    /\ \A f \in DOMAIN hist.cat0 : hist.cat0[f].checksum # Null

C19_DirectoryProbeBound ==
    \A d \in Dirs : probes.dir[d] <= 1

\* the directory of record k is gone, itself or with a directory above it
DirectoryGone(k) == disk.dir[k.path] = "absent"

\* C20: a record whose directory is absent, or lies under an absent
\* directory, is never given an individual file-existence check and, when
\* the run found it in the catalog, is reported deleted by a decision on its
\* directory by the time the run returns; individual checks are made
\* only for files of directories that are present or could not be examined
\* for lack of permission.
C20_NoFileCheckInGoneDirectory ==
    /\ \A k \in AllKeys :
           /\ DirectoryGone(k) => probes.file[k] = 0
           /\ probes.file[k] > 0 => disk.dir[k.path] \in {"present", "denied"}
    /\ CleanupReturned =>
           /\ \A k \in probes.rows0 : DirectoryGone(k) => k \in Deleted
           /\ totals.by_directory >=
                  Cardinality({k \in probes.rows0 : DirectoryGone(k)})

\* a parent and its nested directory are gone and were swept one record a
\* page, while the file of a directory that is still there was checked
C20_Witness ==
    /\ CleanupReturned
    /\ sweep.page_size = 1
    /\ disk.dir[<<"d">>] = "absent"
    /\ disk.dir[<<"e">>] = "present"
    /\ probes.file[Key(<<"e">>, "x")] = 1
    /\ Key(<<"d", "s">>, "x") \in Deleted
    /\ totals.by_directory = 3
    /\ totals.individually = 0

\* directory q had records in the catalog when the run began, so the run
\* meets it, before any directory below it
Catalogued(q) == \E k \in probes.rows0 : k.path = q

\* C21: once a run of cleanup_deleted_files has found a directory deleted,
\* no filesystem call is made for a catalogued directory below it, neither
\* for the directory nor for its files, whichever page its records are on.
C21_ShortCircuitAcrossPages ==
    \A d, q \in Dirs :
        (d # q /\ IsRelativeTo(d, q) /\ Catalogued(q)
              /\ disk.dir[q] = "absent")
            => /\ probes.dir[d] = 0
               /\ \A k \in AllKeys : k.path = d => probes.file[k] = 0

(***************************************************************************)
(* cleanup_empty_directories: page through the distinct directories of the *)
(* catalog and drop the records of those that no longer exist.             *)
(***************************************************************************)
\* SELECT DISTINCT path FROM files ... ORDER BY path
DistinctPaths(table) ==
    SelectSeq(DirOrder, LAMBDA d : \E k \in table : k.path = d)

\* the page query: the first page_size paths, or those WHERE path > ?
DirPageQuery(table, page_num, last_path, page_size) ==
    IF page_num = 1
    THEN Take(DistinctPaths(table), page_size)
    ELSE Take(SelectSeq(DistinctPaths(table),
                        LAMBDA d : PathRank(d) > PathRank(last_path)),
              page_size)

\* the loop over one page: acc = [deleted, permission_errors, checked]
RECURSIVE CheckPageDirectories(_, _)
CheckPageDirectories(dirs, acc) ==
    IF dirs = <<>> THEN acc
    ELSE LET d == Head(dirs)
             chk == CheckDirectoryExistence(d)
             counted == [acc EXCEPT !.checked = @ + 1]
         IN  CheckPageDirectories(Tail(dirs),
                 IF chk.error_message # NoError
                 THEN [counted EXCEPT !.permission_errors = @ + 1]
                 ELSE IF ~chk.exists
                 THEN [counted EXCEPT !.deleted = Append(@, d)]
                 ELSE counted)

\* a deletion that pays no attention to dry_run
DeleteDirectoriesAlways(table, directories, dry_run) ==
    {k \in table : k.path \notin Range(directories)}

\* _delete_directories_from_database: DELETE FROM files WHERE path IN (...)
DeleteDirectoriesFromDatabase(table, directories, dry_run) ==
    IF dry_run THEN table
    ELSE {k \in table : k.path \notin Range(directories)}

\* the head of cleanup_empty_directories: count the distinct directories,
\* return if there are none
StartEmptyDirectories(ps, dry) ==
    /\ sweep.pc = "idle"
    /\ dirpass.pc = "idle"
    /\ dirpass' =
           IF DistinctPaths(rows) = <<>>
           THEN [DirPassIdle EXCEPT
                    !.page_size = ps, !.dry_run = dry, !.rows0 = rows,
                    !.result = [total_checked |-> 0,
                                deleted_directories |-> 0,
                                permission_errors |-> 0]]
           ELSE [DirPassIdle EXCEPT
                    !.pc = "paging", !.page_size = ps, !.dry_run = dry,
                    !.rows0 = rows]
    /\ UNCHANGED <<disk, rows, sweep, totals, probes, result>>
    /\ UNCHANGED <<indexVars, hashVars, scanVars>>

\* one iteration of the paging loop on a page that is not empty
EmptyDirectoriesPage ==
    /\ dirpass.pc = "paging"
    /\ LET page == DirPageQuery(rows, dirpass.page_num, dirpass.last_path,
                                dirpass.page_size)
           acc == CheckPageDirectories(page,
                      [deleted |-> <<>>, permission_errors |-> 0,
                       checked |-> 0])
       IN  /\ page # <<>>
           /\ rows' = DeleteDirectoriesFromDatabase(rows, acc.deleted,
                                                    dirpass.dry_run)
           /\ dirpass' = [dirpass EXCEPT
                  !.page_num = @ + 1,
                  !.last_path = page[Len(page)],
                  !.deleted_directories = @ \o acc.deleted,
                  !.permission_errors = @ + acc.permission_errors,
                  !.checked_directories = @ + acc.checked]
    /\ UNCHANGED <<disk, sweep, totals, probes, result>>
    /\ UNCHANGED <<indexVars, hashVars, scanVars>>

\* the page query returns nothing: summary and returned dictionary
FinishEmptyDirectories ==
    /\ dirpass.pc = "paging"
    /\ DirPageQuery(rows, dirpass.page_num, dirpass.last_path,
                    dirpass.page_size) = <<>>
    /\ dirpass' = [dirpass EXCEPT
           !.pc = "idle",
           !.result = [total_checked |-> dirpass.checked_directories,
                       deleted_directories |->
                           Len(dirpass.deleted_directories),
                       permission_errors |-> dirpass.permission_errors]]
    /\ UNCHANGED <<disk, rows, sweep, totals, probes, result>>
    /\ UNCHANGED <<indexVars, hashVars, scanVars>>

\* both reconciliation passes over a tree that has changed, in any order;
\* cleanup_deleted_files is run at most once in a behaviour
NextDirectories ==
    \/ \E ps \in 1..MaxPage, dry \in BOOLEAN :
           sweep = SweepIdle /\ result = NoResult /\ StartCleanup(ps, dry)
    \/ CleanupPage
    \/ FinishCleanup
    \/ \E ps \in 1..MaxPage, dry \in BOOLEAN : StartEmptyDirectories(ps, dry)
    \/ EmptyDirectoriesPage
    \/ FinishEmptyDirectories

\* the catalog of a fully indexed tree, after the tree has changed; every
\* file check gets an answer
InitDirectories ==
    /\ CleanupInit
    /\ \A k \in AllKeys : disk.file[k] # "error"

SpecDirectories == InitDirectories /\ [][NextDirectories]_vars

(***************************************************************************)
(* Properties of cleanup_empty_directories.                                *)
(***************************************************************************)
RecordsOf(table, d) == {k \in table : k.path = d}

\* something is left in directory d: one of its files, or a directory below
HasMembers(d) ==
    \/ \E k \in AllKeys : k.path = d /\ disk.file[k] = "present"
    \/ \E c \in Dirs : c # d /\ IsRelativeTo(c, d) /\ disk.dir[c] # "absent"

\* the existence check of d fails with PermissionError or OSError
CheckErrors(d) == disk.dir[d] \in {"denied", "oserror"}

\* the step on which cleanup_empty_directories returns after paging
EmptyDirectoriesReturns ==
    dirpass.pc = "paging" /\ dirpass'.pc = "idle"

\* C22: when cleanup_empty_directories returns, whether or not
\* cleanup_deleted_files has run before, the records of every catalogued
\* directory that has no member left are gone, the records of a directory
\* that has members are all still there, and so are those of a directory
\* whose existence check fails.
C22_EmptyDirectoriesRemoved ==
    [][(EmptyDirectoriesReturns /\ ~dirpass.dry_run) =>
          \A d \in Dirs :
              IF CheckErrors(d) \/ HasMembers(d)
              THEN RecordsOf(rows', d) = RecordsOf(dirpass.rows0, d)
              ELSE RecordsOf(rows', d) = {}]_vars


\* a dry run of either reconciliation pass is paging through the catalog
DryRunning ==
    \/ sweep.pc = "paging" /\ sweep.dry_run
    \/ dirpass.pc = "paging" /\ dirpass.dry_run

\* how far through the ordered keys the cursor of cleanup_deleted_files is
SweepCursor(sw) ==
    IF sw.page_num = 1 THEN 0
    ELSE IndexOf(SortKeys(AllKeys), Key(sw.last_path, sw.last_filename))

\* how far through the ordered paths the cursor of cleanup_empty_directories
DirCursor(dp) == IF dp.page_num = 1 THEN 0 ELSE PathRank(dp.last_path)

\* C23: no step of a dry run of cleanup_deleted_files or of
\* cleanup_empty_directories changes a catalog record, whatever the
\* filesystem and the page size, and every dry run returns: each iteration
\* of its paging loop either returns or moves the cursor forward through
\* the finitely many keys, so it returns after at most one page for each.
C23_DryRunChangesNothing ==
    [][DryRunning =>
          /\ rows' = rows
          /\ sweep.pc = "paging" =>
                 \/ sweep'.pc = "idle"
                 \/ /\ SweepCursor(sweep') > SweepCursor(sweep)
                    /\ sweep'.page_num <= Cardinality(AllKeys) + 1
          /\ dirpass.pc = "paging" =>
                 \/ dirpass'.pc = "idle"
                 \/ /\ DirCursor(dirpass') > DirCursor(dirpass)
                    /\ dirpass'.page_num <= Cardinality(Dirs) + 1]_vars

\* dry runs of both passes have returned, each reporting deletions, and the
\* catalog is what it was
C23_Witness ==
    /\ sweep.pc = "idle" /\ sweep.dry_run /\ result # NoResult
    /\ result.deleted_files > 0
    /\ dirpass.pc = "idle" /\ dirpass.dry_run
    /\ dirpass.result # NoDirResult
    /\ dirpass.result.deleted_directories > 0
    /\ rows = AllKeys


(***************************************************************************)
(* scan_directory_generator.  The tree below the root: entries p and s in  *)
(* the root, entry r inside s (inside the directory s points to when s is  *)
(* a link to a directory).  "symlink" is a link to a file or to nothing,   *)
(* "dirlink" a link to a directory, "special" a pipe, socket or device.    *)
(***************************************************************************)
EntryKinds == {"regular", "symlink", "dirlink", "special"}

WalkTrees ==
    [root : {"missing", "file", "dir"},
     p : EntryKinds \cup {"absent"},
     s : EntryKinds \cup {"absent", "dir"},
     r : EntryKinds \cup {"absent"}]

KindOf(tree, name) ==
    IF name = "p" THEN tree.p ELSE IF name = "s" THEN tree.s ELSE tree.r

\* Path.is_symlink()
IsSymlink(k) == k \in {"symlink", "dirlink"}

\* what os.walk puts in dirs and not in filenames: is_dir(), links followed
IsDir(k) == k \in {"dir", "dirlink"}

\* for root, _dirs, filenames in os.walk(directory_path): the filenames of
\* the root, then those of the directories below it; links to directories
\* are not entered
WalkFilenames(tree) ==
    SelectSeq(<<"p", "s">>,
              LAMBDA n : KindOf(tree, n) # "absent" /\ ~IsDir(KindOf(tree, n)))
    \o IF tree.s = "dir" /\ tree.r # "absent" /\ ~IsDir(tree.r)
       THEN <<"r">> ELSE <<>>

\* Path(directory_path).iterdir(): every entry of the root
IterDir(tree) ==
    SelectSeq(<<"p", "s">>, LAMBDA n : KindOf(tree, n) # "absent")

\* the head of scan_directory_generator: nothing to yield when the root does
\* not exist or is not a directory
StartScan(recursive) ==
    /\ walk.state = "idle"
    /\ walk' = IF walk.tree.root # "dir"
               THEN [walk EXCEPT !.state = "done", !.recursive = recursive]
               ELSE [walk EXCEPT
                        !.state = "scanning", !.recursive = recursive,
                        !.pending = IF recursive
                                    THEN WalkFilenames(walk.tree)
                                    ELSE IterDir(walk.tree)]
    /\ UNCHANGED <<indexVars, cleanupVars, hashVars>>

\* one entry through _should_process_file
ScanEntry ==
    /\ walk.state = "scanning"
    /\ walk.pending # <<>>
    /\ LET n == Head(walk.pending)
           k == KindOf(walk.tree, n)
           rest == [walk EXCEPT !.pending = Tail(@)]
       IN  walk' = IF IsSymlink(k)
                   THEN [rest EXCEPT !.ignored_symlinks = @ + 1]
                   ELSE IF k # "regular"
                   THEN [rest EXCEPT !.ignored_special_files = @ + 1]
                   ELSE [rest EXCEPT !.yielded = Append(@, n)]
    /\ UNCHANGED <<indexVars, cleanupVars, hashVars>>

\* the generator is exhausted
FinishScan ==
    /\ walk.state = "scanning"
    /\ walk.pending = <<>>
    /\ walk' = [walk EXCEPT !.state = "done"]
    /\ UNCHANGED <<indexVars, cleanupVars, hashVars>>

\* a new indexer beside any of the trees
InitScan ==
    /\ IndexInit(0, TRUE)
    /\ CleanupAtRest
    /\ HashAtRest
    /\ \E t \in WalkTrees : walk = [WalkIdle EXCEPT !.tree = t]

NextScan ==
    \/ \E recursive \in BOOLEAN : StartScan(recursive)
    \/ ScanEntry
    \/ FinishScan

SpecScan == InitScan /\ [][NextScan]_vars

\* the entries the walk comes across: those of the root, and with recursive
\* those of the directories below it
EntriesMet ==
    {n \in {"p", "s"} : KindOf(walk.tree, n) # "absent"}
    \cup {n \in {"r"} : walk.recursive /\ walk.tree.s = "dir"
                        /\ walk.tree.r # "absent"}

\* C24: the walk yields exactly the regular files it comes across, each
\* once; every symbolic link and every special file it comes across is
\* counted; a root that is missing or is not a directory yields nothing.
C24_WalkerYieldsRegularFiles ==
    walk.state = "done" =>
        IF walk.tree.root # "dir"
        THEN walk.yielded = <<>>
        ELSE /\ Range(walk.yielded) =
                    {n \in EntriesMet : KindOf(walk.tree, n) = "regular"}
             /\ Len(walk.yielded) = Cardinality(Range(walk.yielded))
             /\ walk.ignored_symlinks >=
                    Cardinality({n \in EntriesMet :
                                    IsSymlink(KindOf(walk.tree, n))})
             /\ walk.ignored_special_files >=
                    Cardinality({n \in EntriesMet :
                                    KindOf(walk.tree, n) = "special"})


(***************************************************************************)
(* The checksum column.                                                    *)
(***************************************************************************)
Digests == {Hexdigest(c) : c \in Contents}

\* C25: in every catalog state, whatever indexing operations have run and
\* whichever hashes have failed, the checksum of a record is NULL or a full
\* hex digest, never the empty string the worker returns on failure.
C25_ChecksumNullOrDigest ==
    \A f \in DOMAIN catalog :
        /\ catalog[f].checksum # EmptyString
        /\ catalog[f].checksum = Null \/ catalog[f].checksum \in Digests

\* Phase 2 has returned after hashing two files of one size, of which one
\* could not be read: it has no checksum, the other has its digest
C25_Witness ==
    /\ pc = "idle" /\ op = "phase2" /\ outcome = "returned"
    /\ \E f, g \in DOMAIN catalog :
           /\ f # g
           /\ catalog[f].size = catalog[g].size
           /\ ~fs[f].readable /\ ChecksumWorker(f) = EmptyString
           /\ catalog[f].checksum = Null
           /\ g \in hist.hashed
           /\ catalog[g].checksum = Hexdigest(fs[g].content)


(***************************************************************************)
(* Classification in _process_files_batch.                                 *)
(***************************************************************************)
KeysOf(data) == {data[i].key : i \in 1..Len(data)}

\* the file has a record whose size and modification time are the live ones
StoredAsIs(f) ==
    /\ f \in DOMAIN catalog
    /\ catalog[f].size = Stat(f).size
    /\ catalog[f].mtime = Stat(f).mtime

\* C26: of the files of the batch _process_batch is about to handle, one
\* without a record can only be in the insert list, one whose record has
\* its size and its modification time is in neither list and its record is
\* not written, and any other can only be in the update list; a file is
\* left out of its list only when its checksum was wanted and could not
\* be calculated.
C26_Classification ==
    [][(pc = "batch" /\ todo # <<>>) =>
          LET paths == Take(todo, batch_size)
              checksums == CalculateChecksums(FilesNeedingChecksums(paths))
              inserted == KeysOf(InsertData(paths, checksums))
              updated == KeysOf(UpdateData(paths, checksums))
              failed(f) == /\ ShouldCalculateChecksum(cfg, Stat(f).size)
                           /\ ChecksumWorker(f) = EmptyString
          IN  \A f \in Range(paths) :
                  IF f \notin DOMAIN catalog
                  THEN /\ f \notin updated
                       /\ f \in inserted \/ failed(f)
                  ELSE IF StoredAsIs(f)
                  THEN /\ f \notin inserted \cup updated
                       /\ f \in DOMAIN catalog' /\ catalog'[f] = catalog[f]
                  ELSE /\ f \notin inserted
                       /\ f \in updated \/ failed(f)]_vars

\* one run of update_database has handled a new file, a rewritten file and
\* a file it left alone
C26_Witness ==
    /\ op = "update" /\ ~hist.rejected
    /\ \E f, g, h \in hist.done :
           /\ f \in DOMAIN hist.cat0 /\ f \in DOMAIN catalog
           /\ catalog[f].mtime # hist.cat0[f].mtime
           /\ catalog[f].indexed_at > hist.cat0[f].indexed_at
           /\ g \in DOMAIN hist.cat0 /\ g \in DOMAIN catalog
           /\ catalog[g] = hist.cat0[g]
           /\ h \notin DOMAIN hist.cat0 /\ h \in DOMAIN catalog


(***************************************************************************)
(* The hashing policy.                                                     *)
(***************************************************************************)
\* update_database or index_files_without_checksums has returned, the store
\* having rejected nothing, and the tree is as the run found it
IndexingReturned ==
    /\ pc = "idle" /\ op \in {"update", "phase1"} /\ outcome = "returned"
    /\ ~hist.rejected
    /\ TreeUnchanged

\* the run found no record of the file, or one of another size or
\* modification time
NewOrModified(f) ==
    \/ f \notin DOMAIN hist.cat0
    \/ hist.cat0[f].size # Stat(f).size
    \/ hist.cat0[f].mtime # Stat(f).mtime

\* max_checksum_size while the run was going: index_files_without_checksums
\* runs with the negative value
EffectiveLimit == IF op = "phase1" THEN -1 ELSE cfg.max_checksum_size

\* C27: a new or modified file is hashed unless it is empty and
\* skip_empty_files is set, or max_checksum_size is positive and the file is
\* larger, or max_checksum_size is negative; 0 means no limit and a file of
\* exactly max_checksum_size bytes is hashed.  A file the policy skips is
\* catalogued with a NULL checksum.
C27_HashingPolicy ==
    IndexingReturned =>
        \A f \in Files :
            NewOrModified(f) =>
                IF \/ Stat(f).size = 0 /\ cfg.skip_empty_files
                   \/ EffectiveLimit > 0 /\ Stat(f).size > EffectiveLimit
                   \/ EffectiveLimit < 0
                THEN /\ f \notin hist.hashed
                     /\ f \in DOMAIN catalog
                     /\ catalog[f].checksum = Null
                     /\ catalog[f].size = Stat(f).size
                ELSE IF fs[f].readable
                THEN /\ f \in hist.hashed
                     /\ f \in DOMAIN catalog
                     /\ catalog[f].checksum = Hexdigest(fs[f].content)
                ELSE f \notin hist.hashed

\* with a limit of one byte, update_database has hashed a file of one byte
\* and catalogued a file of two bytes without a checksum
C27_Witness ==
    /\ IndexingReturned /\ op = "update"
    /\ cfg.max_checksum_size = 1
    /\ \E f, g \in Files :
           /\ NewOrModified(f) /\ Stat(f).size = 1
           /\ f \in hist.hashed /\ catalog[f].checksum # Null
           /\ NewOrModified(g) /\ Stat(g).size = 2
           /\ g \in DOMAIN catalog /\ catalog[g].checksum = Null


\* the step writes a checksum into the record of f
WritesChecksum(f) ==
    /\ f \in DOMAIN catalog'
    /\ catalog'[f].checksum # Null
    /\ f \in DOMAIN catalog => catalog[f].checksum # catalog'[f].checksum

\* C28: with skip_empty_files set, no step of update_database,
\* index_files_without_checksums or calculate_checksums_for_duplicates
\* writes a checksum for a file that is empty or into a record of size 0,
\* also when several empty files share size 0; no record of size 0 has a
\* checksum.
C28_EmptyFilesNeverHashed ==
    [][cfg.skip_empty_files =>
          \A f \in Files :
              /\ WritesChecksum(f) =>
                     Stat(f).size # 0 /\ catalog'[f].size # 0
              /\ (f \in DOMAIN catalog' /\ catalog'[f].size = 0) =>
                     catalog'[f].checksum = Null]_vars

\* with skip_empty_files set, Phase 2 has run over a catalog in which two
\* empty files shared size 0, and their records still have no checksum
C28_Witness ==
    /\ Phase2Done /\ cfg.skip_empty_files
    /\ \E f, g \in DOMAIN catalog :
           /\ f # g
           /\ f \in DOMAIN hist.queried /\ g \in DOMAIN hist.queried
           /\ hist.queried[f].size = 0 /\ hist.queried[g].size = 0
           /\ Stat(f).size = 0 /\ Stat(g).size = 0
           /\ catalog[f].size = 0 /\ catalog[g].size = 0
           /\ catalog[f].checksum = Null /\ catalog[g].checksum = Null


(***************************************************************************)
(* The commit of Phase 2.                                                  *)
(***************************************************************************)
\* C29: a step of Phase 2 changes nothing but the checksum and indexed_at
\* of records it has just hashed: the keys, sizes and modification times of
\* all records, every other record and the number of records stay as they
\* are.
C29_TargetedUpdate ==
    [][pc = "phase2" =>
          /\ DOMAIN catalog' = DOMAIN catalog
          /\ \A f \in DOMAIN catalog :
                 /\ catalog'[f].size = catalog[f].size
                 /\ catalog'[f].mtime = catalog[f].mtime
                 /\ catalog'[f] # catalog[f] =>
                        /\ f \in Range(Take(todo, batch_size))
                        /\ f \in hist'.hashed
                        /\ catalog'[f].checksum = Hexdigest(fs[f].content)
                        /\ catalog'[f].indexed_at = clock]_vars

\* Phase 2 has hashed a file that was rewritten after Phase 1 recorded it:
\* the record has a checksum and still the size and modification time
\* Phase 1 stored
C29_Witness ==
    /\ pc = "idle" /\ op = "phase2" /\ outcome = "returned"
    /\ ~hist.rejected /\ TreeUnchanged
    /\ \E f \in hist.hashed :
           /\ f \in DOMAIN hist.cat0
           /\ hist.cat0[f].checksum = Null
           /\ catalog[f].checksum # Null
           /\ catalog[f].mtime = hist.cat0[f].mtime
           /\ catalog[f].mtime # Stat(f).mtime
           /\ catalog[f].indexed_at > hist.cat0[f].indexed_at



(***************************************************************************)
(* The race between the walk and the hashing.  While an operation runs or  *)
(* between two operations, a file is replaced by a symbolic link to a copy *)
(* of it (stat of the path answers as before), or by a special file (a     *)
(* FIFO: size 0, a new modification time).                                 *)
(***************************************************************************)
Replace(f, k) ==
    /\ nmods < MaxMods
    /\ fs[f].kind = "regular"
    /\ nmods' = nmods + 1
    /\ IF k = "symlink"
       THEN /\ fs' = [fs EXCEPT ![f].kind = k]
            /\ UNCHANGED clock
       ELSE /\ fs' = [fs EXCEPT ![f].kind = k, ![f].content = 0,
                                ![f].mtime = clock + 1]
            /\ clock' = clock + 1
    /\ hist' = [hist EXCEPT !.mods = @ \cup {f}]
    /\ UNCHANGED <<catalog, cfg, pc, op, batch_size, todo, fb, sizes, stats,
                   outcome, faults, runs>>
    /\ UNCHANGED <<cleanupVars, hashVars, scanVars>>

NextRace ==
    \/ \E f \in Files, k \in {"symlink", "special"} : Replace(f, k)
    \/ \E bs \in 1..MaxBatch : StartUpdate(bs)
    \/ \E bs \in 1..MaxBatch : StartPhase1(bs)
    \/ \E failAt \in -1..MaxBatch : ProcessBatch(failAt)
    \/ \E fail \in BOOLEAN : ProcessIndividually(fail)
    \/ FinishUpdate
    \/ \E bs \in 1..MaxBatch : StartPhase2(bs)
    \/ NextSize
    \/ \E failAt \in 0..MaxBatch : ChecksumsForFiles(failAt)
    \/ FinishPhase2
    \/ Abort

SpecRace == Init /\ [][NextRace]_vars

\* C30: a path that is a symbolic link or not a regular file when a step of
\* update_database, index_files_without_checksums or
\* calculate_checksums_for_duplicates hashes, also one that was a regular
\* file when it was walked or catalogued, yields no digest in that step and
\* has no checksum written into its record by it.
C30_NoChecksumForReplacedPath ==
    [][\A f \in Files :
           fs[f].kind # "regular" =>
               /\ ~WritesChecksum(f)
               /\ f \in hist'.hashed => f \in hist.hashed]_vars

\* update_database has returned without a fault: a readable file within the
\* hashing policy, walked as a regular file, was replaced by a symbolic link
\* before its batch was hashed; it was not hashed and has no record, while
\* another file of the walk was hashed and has its checksum
C30_Witness ==
    /\ pc = "idle" /\ op = "update" /\ outcome = "returned" /\ faults = 0
    /\ \E f, g \in Files :
           /\ fs[f].kind = "symlink" /\ fs[f].readable
           /\ ShouldCalculateChecksum(cfg, Stat(f).size)
           /\ f \in hist.done
           /\ f \notin hist.hashed
           /\ f \notin DOMAIN catalog
           /\ g \in hist.hashed
           /\ g \in DOMAIN catalog /\ catalog[g].checksum # Null




(***************************************************************************)
(* Order and completion of two_phase_indexing.                             *)
(***************************************************************************)
\* C31: in two_phase_indexing the bucket query of Phase 2 is issued only
\* when Phase 1 has catalogued the whole tree, and for every batch_size >= 1
\* the operation, unless it is killed, returns with every selected bucket
\* processed.
C31_TwoPhaseCompletes ==
    op = "two_phase" =>
        /\ (pc = "phase2" /\ faults = 0) =>
               /\ hist.done = Files
               /\ DOMAIN hist.queried = Files
        /\ (pc = "idle" /\ outcome # "aborted") =>
               /\ outcome = "returned"
               /\ sizes = <<>> /\ todo = <<>>


(***************************************************************************)
(* Phase 2 run again.                                                      *)
(***************************************************************************)
\* C32: calculate_checksums_for_duplicates started right after a Phase 2
\* that returned with all its hashes computed and stored, on the catalog and
\* the tree as that run left them (also in a new process), computes no hash
\* and changes no record, and it returns.
C32_Phase2Idempotent ==
    op = "phase2" /\ hist.prevPhase2 =>
        /\ hist.hashed = {}
        /\ stats.checksum_calculations = hist.calc0
        /\ catalog = hist.cat0
        /\ pc = "idle" /\ outcome = "returned"

\* Phase 2 has run a second time over a catalog in which the first run had
\* hashed two records of equal size, and has left their checksums alone
C32_Witness ==
    /\ op = "phase2" /\ hist.prevPhase2
    /\ pc = "idle" /\ outcome = "returned"
    /\ hist.queried = catalog
    /\ \E f, g \in hist.prevHashed :
           /\ f # g
           /\ catalog[f].size = catalog[g].size
           /\ catalog[f].checksum # Null /\ catalog[g].checksum # Null
    /\ hist.hashed = {}


(***************************************************************************)
(* The accounting of cleanup_deleted_files.                                *)
(***************************************************************************)
\* cleanup_deleted_files has returned its dictionary
SweepReturned == sweep.pc = "idle" /\ result # NoResult

\* C33: when cleanup_deleted_files returns, total_checked is the number of
\* records the catalog held when the run began, no record is in the list of
\* deleted records twice, the returned deleted_files is the deleted_files
\* counter, and unless the run was a dry run the catalog holds the initial
\* number of records less deleted_files.
C33_CleanupAccounting ==
    SweepReturned =>
        /\ result.total_checked = Cardinality(probes.rows0)
        /\ \A k \in AllKeys : Count(totals.deleted_files, k) <= 1
        /\ result.deleted_files = Len(totals.deleted_files)
        /\ result.deleted_files = sweep.deleted_files
        /\ ~sweep.dry_run =>
               Cardinality(rows) = Cardinality(probes.rows0)
                                       - result.deleted_files

\* a sweep of several pages over the whole catalog has returned, having
\* deleted records with a directory and a record on its own
C33_Witness ==
    /\ SweepReturned /\ ~sweep.dry_run
    /\ probes.rows0 = AllKeys
    /\ sweep.page_size < Cardinality(AllKeys)
    /\ totals.by_directory >= 2
    /\ totals.individually >= 1
    /\ result.deleted_files = totals.by_directory + totals.individually
    /\ result.total_checked = Cardinality(AllKeys)


(***************************************************************************)
(* The per-file fallback beside the batch path.  Between two operations a  *)
(* file may also be rewritten with its modification time put back (as      *)
(* cp -p, rsync -t and touch -r do): new content, the old mtime.           *)
(***************************************************************************)
Overwrite(f, c) ==
    /\ pc = "idle"
    /\ nmods < MaxMods
    /\ c # fs[f].content
    /\ nmods' = nmods + 1
    /\ fs' = [fs EXCEPT ![f].content = c]
    /\ hist' = [hist EXCEPT !.written[f] = @ \cup {<<fs[f].mtime, c>>},
                            !.mods = @ \cup {f}]
    /\ UNCHANGED <<clock, catalog, cfg, pc, op, batch_size, todo, fb, sizes,
                   stats, outcome, faults, runs>>
    /\ UNCHANGED <<cleanupVars, hashVars, scanVars>>

NextFallback ==
    \/ \E f \in Files, c \in Contents : Overwrite(f, c)
    \/ \E bs \in 1..MaxBatch : StartUpdate(bs)
    \/ \E bs \in 1..MaxBatch : StartPhase1(bs)
    \/ \E failAt \in -1..MaxBatch : ProcessBatch(failAt)
    \/ \E fail \in BOOLEAN : ProcessIndividually(fail)
    \/ FinishUpdate
    \/ Abort

SpecFallback == Init /\ [][NextFallback]_vars

\* the (checksum, mtime, size) columns the batch path leaves in the table
\* when it processes the one path f and the store rejects nothing
BatchWouldStore(f) ==
    LET cs == CalculateChecksums(FilesNeedingChecksums(<<f>>))
    IN  Columns(BulkDatabaseOperations(catalog, InsertData(<<f>>, cs),
                                       UpdateData(<<f>>, cs), 0, clock).cat)

\* C34: a step of _process_batch_individually that the store does not reject
\* leaves the table with the columns (checksum, mtime, size) the batch path
\* would have left for that file; it keeps a stored checksum only where the
\* batch path does, when neither size nor mtime has changed.
C34_FallbackEquivalence ==
    [][pc = "fallback" /\ pc' # "idle" /\ fb' = Tail(fb) /\ faults' = faults =>
          Columns(catalog') = BatchWouldStore(Head(fb))]_vars


(***************************************************************************)
(* The size ceiling over all operations.                                   *)
(***************************************************************************)
\* C35: with a positive max_checksum_size, in a catalog this indexer filled
\* from empty, no record whose file_size is above max_checksum_size has a
\* checksum, whether update_database or Phase 2 wrote the record.
C35_SizeCeiling ==
    cfg.configured > 0 =>
        \A f \in DOMAIN catalog :
            catalog[f].size > cfg.configured => catalog[f].checksum = Null


(***************************************************************************)
(* The rows of a duplicate group and the wasted space find_duplicates      *)
(* prints for it.                                                          *)
(***************************************************************************)
\* find_duplicates: file_size * (group_size - 1), file_size taken from the
\* first row and group_size the number of rows of the group
WastedSpace(cat, duplicate_group) ==
    cat[duplicate_group[1]].size * (Len(duplicate_group) - 1)

\* C36: after update_database over readable files inside the hashing
\* policy, whatever the fetch size, every group find_duplicates_streaming
\* yields holds each of its records exactly once, for groups of two and of
\* more, and the wasted space find_duplicates prints for the group is
\* file_size times the number of distinct files of the group less one.
C36_GroupMembersOnce ==
    IndexedInPolicy =>
        \A n \in 1..(MaxBatch + 1) :
            LET groups == FindDuplicatesStreaming(catalog, n)
            IN  \A i \in 1..Len(groups) :
                    /\ \A f \in Range(groups[i]) : Count(groups[i], f) = 1
                    /\ WastedSpace(catalog, groups[i])
                           = catalog[groups[i][1]].size
                                 * (Cardinality(Range(groups[i])) - 1)


(***************************************************************************)
(* What update_database leaves without a checksum.                         *)
(***************************************************************************)
\* C37: when update_database has returned without a store fault over a tree
\* left alone since the run began, every catalogued regular file that can be
\* read and is inside the hashing policy has a checksum, also one that an
\* earlier Phase 1 or a run under a stricter limit catalogued without a
\* checksum and that has not changed since.
C37_UpdateCompletesCatalog ==
    UpdateReturned /\ ~hist.rejected /\ TreeUnchanged =>
        \A f \in DOMAIN catalog :
            /\ fs[f].kind = "regular"
            /\ fs[f].readable
            /\ ShouldCalculateChecksum(cfg, Stat(f).size)
            => catalog[f].checksum # Null


(***************************************************************************)
(* Phase 1 over a populated catalog.                                       *)
(***************************************************************************)
\* the file of record f has the modification time and size of the record
AsRecorded(f) ==
    /\ f \in DOMAIN catalog
    /\ Stat(f).mtime = catalog[f].mtime
    /\ Stat(f).size = catalog[f].size

\* C38: no step of index_files_without_checksums (alone or as the first
\* phase of two_phase_indexing), batch or per-file, changes the checksum,
\* mtime, size or indexed_at of a record whose file is as recorded, and the
\* record stays in the catalog.
C38_Phase1KeepsUnchanged ==
    [][(op = "phase1" \/ op = "two_phase") /\ pc \in {"batch", "fallback"} =>
          \A f \in Files :
              AsRecorded(f) =>
                  /\ f \in DOMAIN catalog'
                  /\ catalog'[f] = catalog[f]]_vars

\* index_files_without_checksums has returned over a catalog that
\* update_database had filled: the record of a file left alone has kept its
\* checksum and indexed_at, the record of a file rewritten in between has
\* lost its checksum
C38_Witness ==
    /\ pc = "idle" /\ op = "phase1" /\ outcome = "returned"
    /\ TreeUnchanged
    /\ \E f, g \in DOMAIN hist.cat0 :
           /\ f \notin hist.between /\ AsRecorded(f)
           /\ hist.cat0[f].checksum # Null
           /\ catalog[f] = hist.cat0[f]
           /\ f \in hist.done
           /\ g \in hist.between
           /\ hist.cat0[g].checksum # Null
           /\ catalog[g].checksum = Null


(***************************************************************************)
(* The "skip all" value of index_files_without_checksums.  An exception    *)
(* that no handler below catches (KeyboardInterrupt, MemoryError) leaves   *)
(* update_database in the middle of the run; the indexer object lives on.  *)
(***************************************************************************)
\* an exit that leaves max_checksum_size as it is
KeepMaxChecksumSize(c) == c

\* the finally clause: self.max_checksum_size = original_max_checksum_size
RestoreMaxChecksumSize(c) == [c EXCEPT !.max_checksum_size = c.configured]

\* update_database raises; under index_files_without_checksums the finally
\* clause runs before the exception goes on to the caller
Interrupt ==
    /\ pc \in {"batch", "fallback"}
    /\ op \in {"update", "phase1"}
    /\ pc' = "idle"
    /\ outcome' = "raised"
    /\ todo' = <<>>
    /\ fb' = <<>>
    /\ cfg' = IF op = "phase1" THEN RestoreMaxChecksumSize(cfg) ELSE cfg
    /\ UNCHANGED <<fs, clock, catalog, op, batch_size, sizes, stats, faults,
                   runs, nmods, hist>>
    /\ UNCHANGED <<cleanupVars, hashVars, scanVars>>

NextSentinel ==
    \/ \E bs \in 1..MaxBatch : StartUpdate(bs)
    \/ \E bs \in 1..MaxBatch : StartPhase1(bs)
    \/ \E failAt \in -1..MaxBatch : ProcessBatch(failAt)
    \/ \E fail \in BOOLEAN : ProcessIndividually(fail)
    \/ FinishUpdate
    \/ Interrupt

SpecSentinel == InitPhases /\ [][NextSentinel]_vars

\* C39: outside a running index_files_without_checksums, max_checksum_size
\* is the configured value, whether the last one returned or raised; so an
\* update_database that follows hashes by the configured policy: every file
\* it has newly catalogued without a store fault that the configured policy
\* wants hashed has its checksum.
C39_SentinelRestored ==
    /\ (pc = "idle" \/ op = "update") => cfg.max_checksum_size = cfg.configured
    /\ (op = "update" /\ ~hist.rejected) =>
           \A f \in DOMAIN catalog \ DOMAIN hist.cat0 :
               ShouldCalculateChecksum([cfg EXCEPT !.max_checksum_size =
                                                       cfg.configured],
                                       Stat(f).size)
               => catalog[f].checksum # Null

\* index_files_without_checksums raised part of the way through the tree,
\* and the update_database that followed on the same indexer has hashed a
\* file that Phase 1 had not reached
C39_Witness ==
    /\ op = "update" /\ pc = "batch" /\ todo = <<>>
    /\ outcome = "raised"
    /\ cfg.max_checksum_size = cfg.configured
    /\ hist.cat0 # <<>>
    /\ \A f \in DOMAIN hist.cat0 :
           /\ hist.cat0[f].checksum = Null
           /\ ShouldCalculateChecksum(cfg, hist.cat0[f].size)
    /\ \E g \in hist.hashed :
           /\ g \notin DOMAIN hist.cat0
           /\ g \in DOMAIN catalog /\ catalog[g].checksum # Null

====
